---------------------------- MODULE PlatformCommands ----------------------------
(***************************************************************************)
(* The commands of a Platform as they go over the wire: the requests that  *)
(* an Agent writes (packages/agent/src/index.ts, packages/core/src/        *)
(* platform.ts), how the Platform reads and answers them, one at a time    *)
(* (packages/platform/src/index.ts), and what an Agent makes of the        *)
(* identities it gets.  PlatformIdentities has the same commands           *)
(* interleaved, with requests that are right.                              *)
(*                                                                         *)
(* A body is a function from its members to texts or None, or None if it   *)
(* is no object.  A reader that throws gives None.                         *)
(***************************************************************************)
EXTENDS Naturals, Sequences

CONSTANTS None, Longest,
  Number,        \* from texts that are decimal positive integers to their values
  Lower(_),      \* toLowerCase
  Dids,          \* texts that begin with "did:"
  Resolvable     \* the Services that serviceDidResolver resolves

Operations == {"enroll", "grant", "revoke", "status", "authenticate"}
Statuses == {"active", "revoked", "suspended", "terminated"}
At(body, member) == IF member \in DOMAIN body THEN body[member] ELSE None
Given(member, value) == IF value = None THEN {} ELSE {<<member, value>>}
Body(pairs) == [n \in {p[1] : p \in pairs} |-> (CHOOSE p \in pairs : p[1] = n)[2]]

IsText(value) == value \notin {None, "", " "}

-----------------------------------------------------------------------------
(* What the Agent sends: createPlatformProvisionRequest, and what the      *)
(* delegated signer makes of the claims it is to have signed.              *)
ProvisionRequest(key, service) ==
  IF IsText(key) /\ IsText(service) THEN [service_did |-> service] ELSE None
HasItsResource(op, resource) == op = "authenticate" <=> resource # None
SignRequest(claims) ==
  IF /\ IsText(claims.jti) /\ IsText(claims.aud)
     /\ HasItsResource(claims.op, claims.resource)
     /\ claims.exp - claims.iat \in 1..Longest
  THEN Body({<<"op", claims.op>>, <<"jti", claims.jti>>, <<"service_did", claims.aud>>,
             <<"lifetime_seconds", CHOOSE t \in DOMAIN Number : Number[t] = claims.exp - claims.iat>>}
              \union Given("resource", claims.resource))
  ELSE None

(* resolvePlatformAuthenticationHeaders, and the fields a command adds.    *)
Reserved == {"accept", "content-type", "idempotency-key"}
Headers(authorization, supplied, own) ==
  LET names == {n \in DOMAIN supplied : Lower(n) \notin Reserved}
      fixed == [n \in {"Authorization"} |-> authorization]
  IN  [n \in DOMAIN own \union names \union (IF authorization = None THEN {} ELSE DOMAIN fixed) |->
         CASE n \in DOMAIN own -> own[n] [] n \in names -> supplied[n] [] OTHER -> fixed[n]]

(* endpointUrlWithIdentity, over the segments of a path.                   *)
EndpointPath(segments, id) ==
  LET places == {i \in DOMAIN segments : segments[i] = "{agent_identity_id}"} IN
  [i \in DOMAIN segments |->
     IF i \in places /\ \A j \in places : i <= j THEN <<"id", id>> ELSE segments[i]]

-----------------------------------------------------------------------------
(* How the Platform reads them.                                            *)
ReadProvision(body) ==
  IF body # None /\ IsText(At(body, "service_did"))
  THEN ProvisionRequest("transport-header", body["service_did"]) ELSE None

ReadLifecycle(body) ==
  IF body # None /\ At(body, "status") \in Statuses THEN [status |-> body["status"]] ELSE None

ReadSign(body, maximum) ==
  LET lifetime == At(body, "lifetime_seconds") IN
  IF /\ body # None
     /\ \A m \in {"jti", "service_did"} : IsText(At(body, m))
     /\ At(body, "op") \in Operations
     /\ \A m \in {"resource", "platform_context"} \intersect DOMAIN body : IsText(body[m])
     /\ HasItsResource(At(body, "op"), At(body, "resource"))
     /\ lifetime = None \/ (lifetime \in DOMAIN Number /\ Number[lifetime] <= Longest
                              /\ Number[lifetime] <= IF maximum = None THEN Longest ELSE maximum)
  THEN [op |-> body["op"], jti |-> body["jti"], service |-> body["service_did"],
        resource |-> At(body, "resource"), lifetime |-> IF lifetime = None THEN None ELSE Number[lifetime]]
  ELSE None

ReadVerification(body) ==
  IF /\ body # None
     /\ \A m \in {"client_assertion", "service_did"} : IsText(At(body, m))
     /\ At(body, "op") \in Operations
     /\ "resource" \in DOMAIN body => IsText(body["resource"])
     /\ HasItsResource(At(body, "op"), At(body, "resource"))
  THEN [op |-> body["op"], assertion |-> body["client_assertion"], service |-> body["service_did"],
        resource |-> At(body, "resource")]
  ELSE None

-----------------------------------------------------------------------------
(* Answers.  Who asks is [key, subject, allowed]: the idempotency key, the *)
(* principal, and what the authorizer says of this request.                *)
Problem(status, code) == [status |-> status, code |-> code, body |-> None]
Ok(body) == [status |-> 200, code |-> None, body |-> body]
NotRecognized == Problem(404, "not_recognized")
Invalid == Problem(400, "invalid_request")

AuthorizedIdentity(record, who) == IF record # None /\ who.allowed THEN record ELSE None
Get(record, who) ==
  LET identity == AuthorizedIdentity(record, who) IN
  IF identity = None THEN NotRecognized ELSE Ok(identity)
List(records, who) == IF who.allowed THEN Ok(records) ELSE NotRecognized

LifecycleProblem(status) ==
  CASE status = "terminated" -> "identity_terminated"
    [] status \in {"suspended", "revoked"} -> "identity_suspended"
    [] OTHER -> "identity_unavailable"

(* executePlatformIdempotent, for a key that is not on record.  A new      *)
(* identity is one but for its Service.                                    *)
Keyed(who, answer) == IF "" \in {who.key, who.subject} \/ None \in {who.key, who.subject} THEN Invalid ELSE answer

Provision(body, who, existing, new) ==
  LET request == ReadProvision(body) IN
  CASE request = None -> Invalid
    [] request # None /\ ~who.allowed -> NotRecognized
    [] OTHER ->
         Keyed(who, IF request.service_did \notin Dids \intersect Resolvable THEN Invalid
                    ELSE Ok(IF existing # None THEN existing ELSE [new EXCEPT !.service = request.service_did]))

Sign(body, maximum, who, record) ==
  LET request  == ReadSign(body, maximum)
      identity == AuthorizedIdentity(record, who)
  IN  CASE request = None -> Invalid
        [] request # None /\ (identity = None \/ identity.service # request.service) -> NotRecognized
        [] OTHER ->
             Keyed(who, IF identity.status # "active" THEN Problem(403, LifecycleProblem(identity.status))
                        ELSE IF request.service \notin Resolvable THEN Invalid
                        ELSE Ok([iss |-> identity.did, sub |-> identity.did, aud |-> request.service,
                                 op |-> request.op, jti |-> request.jti, resource |-> request.resource,
                                 lifetime |-> request.lifetime]))

(* lifecyclePolicy allows pairs of statuses.                               *)
Update(body, who, record, allowed) ==
  LET request  == ReadLifecycle(body)
      identity == AuthorizedIdentity(record, who)
  IN  CASE request = None -> Invalid
        [] request # None /\ identity = None -> NotRecognized
        [] OTHER -> IF <<identity.status, request.status>> \in allowed
                    THEN Ok([identity EXCEPT !.status = request.status])
                    ELSE Problem(403, LifecycleProblem(identity.status))

(* Verification tells a stranger only that it does not recognize.          *)
Verify(body, who, record, genuine) ==
  LET request == ReadVerification(body)
      no == Ok([verified |-> FALSE, did |-> None])
  IN  CASE request = None -> Invalid
        [] request # None /\ (record = None \/ ~who.allowed) -> no
        [] OTHER -> IF record.service # request.service THEN no
                    ELSE Keyed(who, IF record.status = "active" /\ genuine
                                    THEN Ok([verified |-> TRUE, did |-> record.did]) ELSE no)

DidDocument(record) == IF record # None /\ record.status = "active" THEN Ok(record.did) ELSE NotRecognized

-----------------------------------------------------------------------------
(* What the Agent makes of an identity of the Platform: one to keep, which *)
(* it takes the Platform's back from to have it sign.                      *)
ReadIdentity(identity) ==
  IF \A m \in DOMAIN identity \ {"algorithms"} : identity[m] \notin {None, ""}
  THEN IF identity.status \in Statuses THEN identity ELSE None ELSE None
AgentIdentity(identity) ==
  [agentDid |-> identity.did, serviceDid |-> identity.service, algorithms |-> identity.algorithms,
   kind |-> "platform-hosted",
   metadata |-> [id |-> identity.id, status |-> identity.status]]
PlatformIdentity(kept) ==
  IF \A m \in {"id", "status"} : At(kept.metadata, m) \notin {None, ""}
  THEN IF kept.metadata["status"] \in Statuses
       THEN [did |-> kept.agentDid, service |-> kept.serviceDid, algorithms |-> kept.algorithms,
             id |-> kept.metadata["id"], status |-> kept.metadata["status"]]
       ELSE None
  ELSE None
SignerFor(kept) == IF kept.kind = "platform-hosted" THEN PlatformIdentity(kept) ELSE None

(* findIdentityByServiceDid and getOrCreateIdentity, given the first page  *)
(* of the identities for the Service and what Provision answers.           *)
Found(page) ==
  LET active == SelectSeq(page, LAMBDA i : i.status = "active") IN
  IF active = <<>> THEN None ELSE AgentIdentity(Head(active))
GotOrCreated(page, answer) ==
  IF Found(page) # None THEN Found(page)
  ELSE IF answer.status = 200 THEN AgentIdentity(answer.body) ELSE None

-----------------------------------------------------------------------------
(* InMemoryManagedAgentRegistry, for Platforms that keep their own         *)
(* records: from DIDs to identities.                                       *)
Upsert(registry, identity) ==
  [did \in DOMAIN registry \union {identity.did} |->
     IF did = identity.did THEN identity ELSE registry[did]]
Remove(registry, did) == [d \in DOMAIN registry \ {did} |-> registry[d]]
SetStatus(registry, did, status, time) ==
  IF did \in DOMAIN registry
  THEN [registry EXCEPT ![did].status = status, ![did].updated = time] ELSE None
Listed(registry, filter) ==
  {registry[did] : did \in {d \in DOMAIN registry : \A m \in DOMAIN filter : registry[d][m] = filter[m]}}

(* createManagedAgentIdentity and updateManagedAgentIdentity: metadata is  *)
(* added to, other members are replaced, and the DID and the day of its    *)
(* creation stay.                                                          *)
Created(did, members, time) ==
  [did |-> did, created |-> time, updated |-> time,
   metadata |-> IF "metadata" \in DOMAIN members THEN members.metadata ELSE <<>>,
   status |-> IF "status" \in DOMAIN members THEN members.status ELSE "active",
   account |-> At(members, "account"), tenant |-> At(members, "tenant")]
Updated(identity, update, time) ==
  LET merged(old, new) == [m \in DOMAIN old \union DOMAIN new |-> IF m \in DOMAIN new THEN new[m] ELSE old[m]] IN
  [[m \in DOMAIN identity |->
      CASE m = "metadata" /\ m \in DOMAIN update -> merged(identity.metadata, update.metadata)
        [] m # "metadata" /\ m \in DOMAIN update -> update[m]
        [] OTHER -> identity[m]] EXCEPT !.updated = time]

(* assertUsableIdentity, which the builders for such Platforms begin with. *)
Usable(identity) == IsText(identity.did) /\ identity.status = "active"
EnrollRequest(identity, key, claims) ==
  IF Usable(identity) /\ IsText(key)
  THEN Body({<<"agent_did", identity.did>>, <<"idempotency_key", key>>} \union Given("claims", claims))
  ELSE None
=============================================================================

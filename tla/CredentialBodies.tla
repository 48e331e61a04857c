--------------------------- MODULE CredentialBodies ---------------------------
(***************************************************************************)
(* A credential from the body of a Grant to the request that presents it:  *)
(* what counts as a body (packages/core/src/protocol.ts), what a Service   *)
(* keeps of it and asks of the records it reads (packages/service/src/     *)
(* index.ts), and what an Agent keeps and sends (packages/agent/src/       *)
(* index.ts); and what the Agent puts into the body of a Revoke.           *)
(*                                                                         *)
(* A body has some members.  A text is in Texts, "" among them; a list of  *)
(* texts is a sequence.  What is missing, null for scopes, and the result  *)
(* of what throws are None.                                                *)
(***************************************************************************)
EXTENDS Naturals, Sequences, SequencesExt

CONSTANTS
  None,
  Texts,
  Unfit,          \* texts that cannot be in a header field as they are
  DateTimes,      \* texts that requireDateTime takes (ClaimValues)
  Lower(_),       \* toLowerCase
  Prefixed(_, _), \* startsWith
  Digest(_, _)    \* sha256 or scrypt of a value with a salt

At(record, member) == IF member \in DOMAIN record THEN record[member] ELSE None
Filled(record, member) == At(record, member) \in Texts \ {""}

BuiltIn == {"api-key", "basic", "oauth-bearer"}
Secret == [type \in BuiltIn |-> CASE type = "api-key" -> "api_key" [] type = "basic" -> "password"
                                  [] OTHER -> "access_token"]
Needed == [type \in BuiltIn |->
             {"credential_id", "expires_at", Secret[type]} \union
             (CASE type = "api-key" -> {"header"} [] type = "basic" -> {"username"} [] OTHER -> {"token_type"})]

-----------------------------------------------------------------------------
(* validateOAuthBearerGrantResponse and its like; scopes are a list then.  *)
Parsed(type, body) ==
  IF /\ type \in BuiltIn
     /\ \A member \in Needed[type] : Filled(body, member)
     /\ body.expires_at \in DateTimes
     /\ At(body, "scopes") # None => ToSet(body.scopes) \subseteq Texts
     /\ type = "oauth-bearer" => body.token_type = "Bearer"
     /\ type = "basic" /\ At(body, "realm") # None => Filled(body, "realm")
  THEN [m \in DOMAIN body \union {"scopes"} |->
          IF m = "scopes" /\ At(body, m) = None THEN <<>> ELSE body[m]]
  ELSE None

(* What stands for a credential in a header: of a Basic one the user name  *)
(* and the password, between which there is a colon.                       *)
Value(type, body) ==
  IF type = "basic" THEN body.username \o ":" \o body.password ELSE body[Secret[type]]

-----------------------------------------------------------------------------
(* storedCredential: the secret itself is not kept.                        *)
Kept == [type \in BuiltIn |-> ({"scopes"} \union Needed[type]) \ {Secret[type]}]
Stored(type, body, salt) ==
  [m \in Kept[type] \union {"verifier"} |->
     IF m = "verifier" THEN [salt |-> salt, digest |-> Digest(Value(type, body), salt)] ELSE body[m]]

(* storedBuiltInGrantType's grant: the body that is answered and the       *)
(* record that is saved, unless the header of a key is not an advertised   *)
(* one.                                                                    *)
Grant(type, issued, agent, salt, headers) ==
  LET body == Parsed(type, issued) IN
  IF \/ body = None
     \/ type = "api-key" /\ headers # None /\ Lower(body.header) \notin {Lower(h) : h \in headers}
  THEN None
  ELSE [body |-> body,
        record |-> [agentDid |-> agent, grantType |-> type, credentialId |-> body.credential_id,
                    expiresAt |-> body.expires_at, credential |-> Stored(type, body, salt)]]

(* credentialRecordWithParsedCredential: whether a record that is read is  *)
(* sound.                                                                  *)
Sound(record) ==
  LET c == record.credential IN
  /\ "verifier" \in DOMAIN c /\ c.verifier # None
  /\ At(c, "scopes") # None /\ ToSet(c.scopes) \subseteq Texts
  /\ At(c, "expires_at") \in DateTimes
  /\ record.grantType = "api-key" => Filled(c, "header")
  /\ record.grantType = "basic" => Filled(c, "username")
  /\ record.grantType = "oauth-bearer" => At(c, "token_type") = "Bearer"
  /\ At(c, "credential_id") = record.credentialId /\ c.expires_at = record.expiresAt

(* migrateServiceCredentialRecord: a record that still has its secret gets *)
(* a verifier of it.                                                       *)
Migrated(record, salt) ==
  LET c == record.credential
      body == IF c = None THEN None ELSE Parsed(record.grantType, c)
      new  == [record EXCEPT !.credential = Stored(record.grantType, body, salt)] IN
  IF c = None THEN None
  ELSE IF "verifier" \in DOMAIN c /\ Secret[record.grantType] \notin DOMAIN c
  THEN IF Sound(record) THEN record ELSE None
  ELSE IF body # None /\ Sound(new) THEN new ELSE None

(* credentialMatchesHeaders, of a presented [scheme, field, value]; the    *)
(* user name counts as the beginning of the value.                         *)
Matches(record, presented) ==
  LET c == record.credential
      digest == Digest(presented.value, c.verifier.salt) IN
  /\ CASE record.grantType = "api-key" ->
            presented.scheme = "none" /\ Lower(c.header) = Lower(presented.field)
       [] record.grantType = "basic" ->
            presented.scheme = "Basic" /\ Prefixed(presented.value, c.username \o ":")
       [] OTHER -> presented.scheme = "Bearer"
  /\ digest = c.verifier.digest

-----------------------------------------------------------------------------
(* parseGrantResponse, credentialIdFromGrantResult and                     *)
(* expiresAtFromGrantResult: what a session keeps of a Grant, other types  *)
(* being whatever the Service says.                                        *)
Taken(type, body) ==
  LET credential == IF type \in BuiltIn THEN Parsed(type, body) ELSE body IN
  IF credential = None \/ ~Filled(credential, "credential_id") THEN None
  ELSE [credentialId |-> credential.credential_id, credential |-> credential,
        expiresAt |-> IF At(credential, "expires_at") \in Texts THEN credential.expires_at ELSE None]

(* credentialPresentationHeaders tells the type of a credential by the     *)
(* members that it has.                                                    *)
TypeBy(body) ==
  CASE "access_token" \in DOMAIN body /\ At(body, "token_type") = "Bearer" -> "oauth-bearer"
    [] ~("access_token" \in DOMAIN body /\ At(body, "token_type") = "Bearer") /\
       {"api_key", "header"} \subseteq DOMAIN body -> "api-key"
    [] OTHER -> IF {"username", "password"} \subseteq DOMAIN body THEN "basic" ELSE None
Presented(body) ==
  LET type == TypeBy(body) IN
  CASE type = "api-key" ->
         IF {body.header, body.api_key} \intersect Unfit # {} THEN None
         ELSE [scheme |-> "none", field |-> body.header, value |-> body.api_key]
    [] type = "oauth-bearer" ->
         IF body.access_token \in Unfit THEN None
         ELSE [scheme |-> "Bearer", field |-> "authorization", value |-> body.access_token]
    [] type = "basic" -> [scheme |-> "Basic", field |-> "authorization", value |-> Value("basic", body)]
    [] OTHER -> None

-----------------------------------------------------------------------------
(* revokeService: the selector counts more than the parameters beside it;  *)
(* parseRevokeRequest of both, by RevokeRequest.                           *)
Selector(all, type, credential) ==
  IF all THEN [all_grant_types |-> "true"]
  ELSE IF credential # None THEN [credential_id |-> credential, grant_type |-> type]
  ELSE [grant_type |-> type]
Beside(parameters, selector) ==
  [m \in DOMAIN parameters \union DOMAIN selector |->
     IF m \in DOMAIN selector THEN selector[m] ELSE parameters[m]]
RevokeRequest(body) ==
  LET given(m) == At(body, m) # None IN
  /\ \A m \in {"grant_type", "credential_id"} : given(m) => Filled(body, m)
  /\ given("all_grant_types") => body.all_grant_types = "true"
  /\ \/ given("all_grant_types") /\ ~given("grant_type") /\ ~given("credential_id")
     \/ given("grant_type") /\ ~given("all_grant_types")
RevokeBody(parameters, all, type, credential) ==
  LET body == Beside(parameters, Selector(all, type, credential)) IN
  IF RevokeRequest(body) THEN body ELSE None

(* grantService, likewise.                                                 *)
GrantBody(parameters, type, scopes) ==
  LET body == Beside(parameters, Beside([grant_type |-> type],
                IF scopes = None THEN <<>> ELSE [requested_scopes |-> scopes])) IN
  IF /\ Filled(body, "grant_type")
     /\ At(body, "requested_scopes") # None => ToSet(body.requested_scopes) \subseteq Texts
  THEN body ELSE None
=============================================================================

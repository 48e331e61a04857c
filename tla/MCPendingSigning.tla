--------------------------- MODULE MCPendingSigning ---------------------------
EXTENDS SigningAndInspection, Sequences, TLC

(* One signing is enough: signings share nothing but the clock, since keys *)
(* are random.  Four keys let continueSign draw more than it should.       *)
CONSTANTS p1, p2

(* Both inspect directly, both in a session, or one of each.               *)
MCKinds == [{p1, p2} -> {"direct", "session"}] \ {[i \in {p1, p2} |-> IF i = p1 THEN "session" ELSE "direct"]}

(* A behaviour is about a signing or about inspections.                    *)
VARIABLE subject
MCInit == BothInit /\ subject \in {"signing", "inspection"}
MCNext ==
  /\ UNCHANGED subject
  /\ \/ subject = "signing" /\ Signs
     \/ subject = "inspection" /\ Inspects
MCSpec == MCInit /\ [][MCNext]_<<vars, inspecting, subject>> /\ Fairness

-----------------------------------------------------------------------------
(* The adapters, over requests with at most two lines of a field.          *)
MCTexts == {"AEP a", "aep  b", "Bearer t", "AEP a, AEP b", "AEP"}
MCJoin(lines) == IF Len(lines) = 1 THEN lines[1] ELSE lines[1] \o ", " \o lines[2]
MCAssertionIn(text) == CASE text = "AEP a" -> "a" [] text = "aep  b" -> "b" [] OTHER -> ""
MCIsBlank(text) == text \in {"", "  "}
MCAuthenticate(command, assertion) ==
  CASE assertion = "a" -> "agentA" [] assertion = "b" -> "agentB" [] OTHER -> None

(* A handler of a Service tells whom it was called for and with what, and  *)
(* sets a header itself.                                                   *)
MCHandle(who, call) ==
  [status |-> 200, type |-> "application/aep+json", body |-> <<who, call>>,
   headers |-> ("X" :> who)]
MCPathOf(command) == "/aep/" \o command

Http == INSTANCE HttpAdapters WITH
  Join <- MCJoin, AssertionIn <- MCAssertionIn, IsBlank <- MCIsBlank,
  Authenticate <- MCAuthenticate, Handle <- MCHandle, PathOf <- MCPathOf
MCAdapters == Http!Node \union Http!Fetch

MCBodies == {None} \union [agent : {"agentA", "agentB"}, key : {None, "k", "j"}]
MCAtMostOne(texts) == {<<>>} \union {<<t>> : t \in texts}
MCRequest(a, k, b) == [authorization |-> a, key |-> k, body |-> b]
MCSingle == {MCRequest(a, k, b) : a \in MCAtMostOne(MCTexts), k \in MCAtMostOne({"k", "j", "  "}), b \in MCBodies}
MCAnswer(adapter, command, request) == Http!CommandAnswer(adapter, command, request)

(* It makes no difference which framework a Service is put behind.         *)
ASSUME FrameworksAgree ==
  \A command \in Http!Commands : \A request \in MCSingle :
    \A one, other \in MCAdapters : MCAnswer(one, command, request) = MCAnswer(other, command, request)

(* A command is done for the Agent whose assertion came, with the key that *)
(* came, or not at all; before that nothing is told of the request.        *)
ASSUME CommandsAreForTheirAgent ==
  \A command \in Http!Commands : \A request \in MCSingle : \A adapter \in MCAdapters :
    LET answer == MCAnswer(adapter, command, request)
        who    == CASE request.authorization = <<"AEP a">> -> "agentA"
                    [] request.authorization = <<"aep  b">> -> "agentB"
                    [] OTHER -> None IN
    /\ who = None => answer.status = 401
    /\ answer.status = 200 =>
         /\ answer.body[1] = who
         /\ command # "status" => <<answer.body[2].key>> = request.key /\ answer.body[2].key # "  "
         /\ command = "enroll" => request.body.agent = who
    /\ who # None /\ command = "status" => answer.status = 200
    /\ who # None /\ command \in {"grant", "revoke"} =>
         (answer.status = 200 <=> request.body # None /\ request.key \in {<<"k">>, <<"j">>})

(* Of several credentials, the first may be used and another never; a key  *)
(* of several lines is one key of its own, in which no line is heard, and  *)
(* which resolveIdempotencyKey would refuse.                               *)
ASSUME LaterLinesAreNotUsed ==
  \A adapter \in MCAdapters : \A first, second \in MCTexts : \A command \in Http!Commands :
    LET call == Http!Call(adapter, command, MCRequest(<<first, second>>, <<"k", "j">>, None)) IN
    /\ call.assertion \in {"", MCAssertionIn(first)}
    /\ adapter \in Http!Fetch => call.assertion = ""
    /\ command # "status" => call.key = "k, j"
    /\ Http!ResolvedKey(<<"k", "j">>, None) = None
    /\ \A lists \in {<<first, second>>, <<>>} : Http!BaselineAssertion(Http!SingleValue(lists, TRUE)) = ""
    /\ Http!BaselineAssertion(Http!SingleValue(<<first>>, TRUE)) = MCAssertionIn(first)

(* Where both ask, resolveIdempotencyKey and the Service agree on a key    *)
(* and its copy in the body, but for keys that are only blanks.            *)
ASSUME KeysResolveAsServed ==
  \A lines \in MCAtMostOne({"k", "j", ""}) : \A copy \in {None, "k", "j"} :
    LET answer == MCAnswer("hono", "enroll", MCRequest(<<"AEP a">>, lines, [agent |-> "agentA", key |-> copy])) IN
    answer.status = 200 <=> Http!ResolvedKey(lines, copy) # None

(* An Agent's request finds the handler of its command, and no path means  *)
(* two things.                                                             *)
MCRoutes == Http!Routes("/.well-known/aep")
ASSUME RoutesLeadToHandlers ==
  /\ \A c \in Http!Commands :
       {r \in MCRoutes : r.path = "/aep/" \o c /\ r.method = Http!AgentMethod(c)} =
         {[method |-> Http!AgentMethod(c), path |-> "/aep/" \o c, to |-> c]}
  /\ \A r, s \in MCRoutes : r.path = s.path => r = s
  /\ MCRoutes = {Http!NextRoute(c, "/.well-known/aep") : c \in Http!Commands \union {"inspect"}}
  /\ \A adapter, other \in MCAdapters :
       Http!InspectAnswer(adapter, "GET", "document") = Http!InspectAnswer(other, "GET", "document")
  /\ \A adapter \in Http!Node : Http!InspectAnswer(adapter, "POST", "document").body = "invalid_request"

(* An application goes on with a request if it was told who makes it, and  *)
(* not otherwise, whatever framework it stands behind.                     *)
ASSUME OnlyTheAuthenticatedProceed ==
  LET refused == [authenticated |-> FALSE, response |-> Http!Problem("not_recognized", 401)]
      known   == [authenticated |-> TRUE, principal |-> "agentA"]
      all(result, listens) == {Http!ExpressProtected(result, listens), Http!FastifyProtected(result, listens),
                               Http!HonoProtected(result, listens), Http!NextProtected(result, listens)} IN
  /\ all(known, FALSE) = {Http!Failed}
  /\ \A outcome \in all(known, TRUE) : outcome.told = "agentA"
  /\ \A listens \in BOOLEAN : \A outcome \in all(refused, listens) :
       outcome = [status |-> 401, body |-> "not_recognized",
                  headers |-> [n \in {"Content-Type", "WWW-Authenticate"} |->
                                 IF n = "Content-Type" THEN "application/problem+json" ELSE "not_recognized"]]

(* The caller cannot choose the origin that an assertion is to be bound    *)
(* to where it is configured, and with the other adapters it can only by   *)
(* the origin that their server believes to be.                            *)
ASSUME ResourcesStayAtTheirOrigin ==
  \A form \in {"path", "absolute", "other"} : \A origin, seen \in {"here", "there"} :
    LET request == [target |-> [form |-> form, origin |-> origin, path |-> "p"], seen |-> seen] IN
    /\ \A adapter \in Http!Node : Http!ProtectedUrl(adapter, request, "here") \in
                                    {None, [origin |-> "here", path |-> "p"]}
    /\ form = "path" /\ seen = "here" =>
         \A one, other \in MCAdapters :
           Http!ProtectedUrl(one, request, "here") = Http!ProtectedUrl(other, request, "here")
    /\ form = "other" <=> \E adapter \in MCAdapters : Http!ProtectedUrl(adapter, request, "here") = None

-----------------------------------------------------------------------------
(* Credential bodies of every built-in type, from issue to presentation.   *)
MCLower(text) == IF text = "X-Key" THEN "x-key" ELSE text
MCDigest(value, salt) == <<value, salt>>
MCPrefixed(text, prefix) ==
  CASE prefix = "a:" -> text \in {"a:s", "a:t", "a:s:t"} [] OTHER -> text = "a:s:t"

Cred == INSTANCE CredentialBodies WITH
  Texts <- {"", "id", "jd", "s", "t", "s t", "a", "a:s", "s:t", "Bearer", "never", "2030", "X-Key", "x-key", "x-other",
            "api-key", "basic", "scope", "true"},
  Unfit <- {"s t"}, DateTimes <- {"2030"}, Lower <- MCLower, Digest <- MCDigest, Prefixed <- MCPrefixed
MCCommon(id) == [credential_id |-> id, expires_at |-> "2030"]
MCCredentials ==
  [type \in Cred!BuiltIn |->
     CASE type = "api-key" ->
            {MCCommon(id) @@ [api_key |-> s, header |-> h] : id \in {"id", "jd"}, s \in {"s", "a:s", "s t"},
                                                          h \in {"X-Key", "x-key", "x-other"}}
       [] type = "basic" ->
            {MCCommon("id") @@ [username |-> u, password |-> p] :
               <<u, p>> \in {<<"a", "s">>, <<"a", "t">>, <<"a", "s:t">>, <<"a:s", "t">>}}
       [] OTHER -> {MCCommon(id) @@ [access_token |-> s, token_type |-> "Bearer"] :
                    id \in {"id", "jd"}, s \in {"s", "a:s", "s t"}}]
MCScoped(body, scopes) == body @@ [scopes |-> scopes]
MCGrant(type, body) == Cred!Grant(type, body, "agent", "salt", None)

(* What a Service grants, the Agent can take, and it presents what the     *)
(* Service then recognizes, unless it could not be sent as it is; nothing  *)
(* else is recognized, but that a user name and a password with a colon    *)
(* can be parted in two ways.                                              *)
ASSUME GrantedIsRecognized ==
  \A type \in Cred!BuiltIn : \A body \in MCCredentials[type] : \A scopes \in {None, <<>>, <<"scope">>} :
    LET granted == MCGrant(type, MCScoped(body, scopes))
        taken   == Cred!Taken(type, granted.body)
        sent    == Cred!Presented(taken.credential) IN
    /\ Cred!Sound(granted.record) /\ Cred!Secret[type] \notin DOMAIN granted.record.credential
    /\ taken.credentialId = granted.record.credentialId /\ taken.expiresAt = granted.record.expiresAt
    /\ \A scoped \in {taken.credential, granted.record.credential} :
         scoped.scopes = IF scopes = None THEN <<>> ELSE scopes
    /\ sent = None <=> Cred!At(body, Cred!Secret[type]) = "s t"
    /\ sent # None =>
         \A t \in Cred!BuiltIn : \A other \in MCCredentials[t] :
           Cred!Matches(MCGrant(t, other).record, sent) <=>
             /\ t = type
             /\ \/ other \in {body, [body EXCEPT !.credential_id = other.credential_id]}
                \/ type = "basic" /\ {other.password, body.password} = {"s:t", "t"} /\ other.username # body.username
                                  /\ "a:s" \in {other.username, body.username}
                \/ type = "api-key" /\ other.api_key = body.api_key /\ MCLower(other.header) = MCLower(body.header)

(* A body with a member that is missing, empty or no such value is granted *)
(* by no Service and taken by no Agent; other types are not looked at.     *)
ASSUME WrongBodiesAreRefused ==
  \A type \in Cred!BuiltIn : \A body \in MCCredentials[type] :
    LET without(m) == [n \in DOMAIN body \ {m} |-> body[n]]
        wrong == {without(m) : m \in Cred!Needed[type]} \union
                 {[body EXCEPT ![m] = ""] : m \in Cred!Needed[type]} \union
                 {[body EXCEPT !.expires_at = "never"], MCScoped(body, <<"scope", None>>)} \union
                 (IF type = "basic" THEN {body @@ [realm |-> ""]} ELSE {}) \union
                 (IF type = "oauth-bearer" THEN {[body EXCEPT !.token_type = "basic"]} ELSE {})
    IN  /\ \A w \in wrong : MCGrant(type, w) = None /\ Cred!Taken(type, w) = None
        /\ Cred!Parsed("x.other", body) = None /\ Cred!Taken("x.other", body).credential = body
        /\ Cred!Taken("x.other", without("expires_at")).expiresAt = None
        /\ Cred!Taken("x.other", without("credential_id")) = None
        /\ type = "api-key" =>
             (Cred!Grant(type, body, "agent", "salt", {"X-Key"}) = None <=> body.header = "x-other")

(* A record from before there were verifiers is recognized as it would be  *)
(* had it been stored with one; reading it again changes nothing, and a    *)
(* record that contradicts itself is not read.                             *)
ASSUME MigrationKeepsCredentials ==
  \A type \in Cred!BuiltIn : \A body \in MCCredentials[type] :
    LET stored == MCGrant(type, body).record
        legacy == [stored EXCEPT !.credential = body]
        half   == [stored EXCEPT !.credential = body @@ [verifier |-> [salt |-> "old", digest |-> <<"?", "old">>]]]
        c      == stored.credential IN
    /\ Cred!Migrated(legacy, "salt") = stored /\ Cred!Migrated(half, "salt") = stored
    /\ Cred!Migrated(stored, "new") = stored
    /\ Cred!Migrated([stored EXCEPT !.credential = None], "salt") = None
    /\ \A old \in {stored, legacy} : /\ Cred!Migrated([old EXCEPT !.credentialId = "x"], "salt") = None
                                     /\ Cred!Migrated([old EXCEPT !.expiresAt = "never"], "salt") = None
    /\ Cred!Migrated([stored EXCEPT !.credential.scopes = <<None>>], "salt") = None
    /\ \A m \in DOMAIN c : Cred!Migrated([stored EXCEPT !.credential = [n \in DOMAIN c \ {m} |-> c[n]]], "salt") = None

(* A body with the members of two types is presented as one of them, which *)
(* may not be its own; then its Service does not know it.                  *)
ASSUME MembersOfTwoTypes ==
  LET two(a, b) == MCGrant("basic", a @@ b).record
      login == CHOOSE b \in MCCredentials["basic"] : b.username = "a" /\ b.password = "s" IN
  \A type \in {"api-key", "oauth-bearer"} : \A other \in MCCredentials[type] :
    LET sent == Cred!Presented(Cred!Taken("basic", login @@ other).credential) IN
    sent # None => ~Cred!Matches(two(login, other), sent)

(* What a caller adds to a Revoke or a Grant cannot make it one of another *)
(* type or of all; it can name a credential where the caller named none.   *)
MCParameters ==
  {<<>>, [note |-> "a"], [grant_type |-> "basic"], [credential_id |-> "jd"], [all_grant_types |-> "true"],
   [grant_type |-> "basic", credential_id |-> "jd"], [requested_scopes |-> <<None>>], [requested_scopes |-> <<"a">>]}
ASSUME ParametersDoNotWiden ==
  \A parameters \in MCParameters : \A all \in BOOLEAN : \A credential \in {None, "id"} :
    LET body == Cred!RevokeBody(parameters, all, "api-key", credential) IN
    /\ body = None <=> IF all THEN {"grant_type", "credential_id"} \intersect DOMAIN parameters # {}
                       ELSE "all_grant_types" \in DOMAIN parameters
    /\ body # None => /\ "all_grant_types" \in DOMAIN body <=> all
                      /\ ~all => body.grant_type = "api-key"
                      /\ ~all /\ credential # None => body.credential_id = "id"
                      /\ ~all /\ credential = None =>
                           Cred!At(body, "credential_id") = Cred!At(parameters, "credential_id")
    /\ \A scopes \in {None, <<>>, <<"scope">>} :
         LET grant == Cred!GrantBody(parameters, "api-key", scopes) IN
         /\ grant = None <=> scopes = None /\ Cred!At(parameters, "requested_scopes") = <<None>>
         /\ grant # None => grant.grant_type = "api-key" /\ (scopes # None => grant.requested_scopes = scopes)
=============================================================================

----------------------------- MODULE Presentation -----------------------------
(***************************************************************************)
(* How a credential gets from an Agent to the handler of a Service that    *)
(* evaluates it: the header builders of the Agent                          *)
(* (packages/agent/src/index.ts), the syntax of presentations              *)
(* (packages/core/src/http.ts), the Service's choice among the fields of a *)
(* request (packages/service/src/index.ts), and the challenge it answers   *)
(* with.                                                                   *)
(*                                                                         *)
(* A presentation is [scheme, secret]; the secret of an API key stands     *)
(* alone, under the scheme "none".  The value of a header field is a       *)
(* sequence of presentations, the several that a comma joins, or <<>> if   *)
(* the field is absent.  A credential is [method, secret, field, holder],  *)
(* an assertion being one of method Jwt; its field matters for API keys.   *)
(***************************************************************************)
EXTENDS Naturals, Sequences, SequencesExt

CONSTANTS
  None,
  Unsendable,  \* secrets that are no visible ASCII
  Commas       \* secrets with a comma in them

Jwt == "aep-jwt"
Standard == "authorization"
Dedicated == "aep-authorization"
SchemeOf == [m \in {Jwt, "oauth-bearer", "basic", "api-key"} |->
               CASE m = Jwt -> "AEP" [] m = "oauth-bearer" -> "Bearer"
                 [] m = "basic" -> "Basic" [] m = "api-key" -> "none"]

-----------------------------------------------------------------------------
(* The Agent.  The builders choose the field and refuse secrets that would *)
(* not survive in it.                                                      *)
CarrierField(carrier) == IF carrier = "dedicated" THEN Dedicated ELSE Standard
FieldOf(credential, carrier) ==
  IF credential.method = "api-key" THEN credential.field ELSE CarrierField(carrier)
Renderable(credential) ==
  /\ credential.secret \notin Unsendable
  /\ credential.method = "api-key" => credential.secret \notin Commas
ValueOf(credential) == <<[scheme |-> SchemeOf[credential.method], secret |-> credential.secret]>>

(* mergeAuthoritativeHeaders: additional fields may not collide with the   *)
(* presentation; nothing of the caller's in AEP's own field is sent.       *)
Collides(additional, field) == \E name \in {field, Dedicated} : additional[name] # <<>>
Merged(caller, additional, field, value) ==
  [name \in DOMAIN caller |->
     IF name = field THEN value
     ELSE IF additional[name] # <<>> THEN additional[name]
     ELSE IF name = Dedicated THEN <<>>
     ELSE caller[name]]

(* What fetchProtectedResource sends: None when it throws instead.         *)
Authenticated(credential, carrier, caller, additional) ==
  LET field == FieldOf(credential, carrier) IN
  IF ~Renderable(credential) \/ Collides(additional, field) THEN None
  ELSE Merged(caller, additional, field, ValueOf(credential))

(* withoutAuthenticationHeaders: what its probe sends.  (It drops a field  *)
(* for payments too, which is none of the fields here.)                    *)
Anonymous(caller) ==
  [name \in DOMAIN caller |-> IF name \in {Standard, Dedicated} THEN <<>> ELSE caller[name]]

-----------------------------------------------------------------------------
(* parseProtectedResourceAuthorization.                                    *)
Parsed(value, carrier) ==
  IF /\ Len(value) = 1 /\ value[1].scheme \in {"AEP", "Bearer", "Basic"}
     /\ carrier = "dedicated" => value[1].secret \notin Commas
  THEN value[1] ELSE None

(* A request as an adapter hands it over: the lines of each field, in a    *)
(* Headers object, in a record of strings under several spellings of the   *)
(* name, or in a record of arrays.                                         *)
Value(source, name) ==
  IF source.lines[name] = <<>> THEN <<>>
  ELSE IF source.form = "strings" THEN Last(source.lines[name])
  ELSE FlattenSeq(source.lines[name])

Duplicate(source, name) ==
  CASE source.form = "headers" ->
         \/ Len(Value(source, name)) > 1
         \/ \E i \in DOMAIN Value(source, name) : Value(source, name)[i].secret \in Commas
    [] source.form = "strings" -> Len(source.lines[name]) > 1
    [] source.form = "arrays" -> TRUE

(* selectProtectedResourceAuthorization of the Service: the field to       *)
(* evaluate, <<>> to let the handlers see, or None to refuse.              *)
Selected(source) ==
  LET dedicated == Value(source, Dedicated) IN
  IF dedicated = <<>> THEN <<>>
  ELSE IF \/ Duplicate(source, Dedicated)
          \/ Parsed(dedicated, "dedicated") = None
          \/ Parsed(Value(source, Standard), "standard") # None
  THEN None
  ELSE dedicated

(* selectProtectedResourceAuthorization of core, for those who evaluate    *)
(* requests themselves; each field is a sequence of its lines.             *)
SelectedByCore(lines) ==
  LET once(name) == IF lines[name] = <<>> THEN <<>> ELSE lines[name][1] IN
  IF Len(lines[Dedicated]) > 1 \/ Len(lines[Standard]) > 1 THEN None
  ELSE IF once(Dedicated) # <<>>
  THEN IF \/ Parsed(once(Dedicated), "dedicated") = None
          \/ Parsed(once(Standard), "standard") # None
       THEN None ELSE once(Dedicated)
  ELSE IF Parsed(once(Standard), "standard") = None THEN <<>> ELSE once(Standard)

-----------------------------------------------------------------------------
(* authenticateProtectedResourceRequest, for a store of live credentials   *)
(* and the methods in the order of Inspect: who is authenticated, by what  *)
(* method, or the reason of the challenge.                                 *)
Refusal(reason) == [holder |-> None, method |-> None, reason |-> reason]
Principal(credential) ==
  [holder |-> credential.holder, method |-> credential.method, reason |-> None]

(* credentialMatchesHeaders.                                               *)
HeadersMatch(credential, source, authorization) ==
  LET value == IF credential.method = "api-key" /\ credential.field # Standard
               THEN Value(source, credential.field) ELSE authorization
  IN  IF credential.method = "api-key" THEN value = ValueOf(credential)
      ELSE Parsed(value, "standard") = ValueOf(credential)[1]

MethodNamed(presentation) ==
  IF presentation.scheme = "Bearer" THEN "oauth-bearer" ELSE "basic"

Authenticate(source, methods, store) ==
  LET selected      == Selected(source)
      authorization == IF selected \in {None, <<>>} THEN Value(source, Standard) ELSE selected
      matching(m)   == {c \in store : c.method = m /\ HeadersMatch(c, source, authorization)}
      holders(m)    == {c.holder : c \in matching(m)}
      settled       == {i \in DOMAIN methods : methods[i] # Jwt /\ \E h \in holders(methods[i]) :
                                                  holders(methods[i]) = {h}}
      presented     == \/ authorization # <<>>
                       \/ \E c \in store : /\ c.method = "api-key"
                                           /\ \E i \in DOMAIN methods : methods[i] = "api-key"
                                           /\ Value(source, c.field) # <<>>
      parsed        == Parsed(authorization, "standard")
      advertised(m) == \E i \in DOMAIN methods : methods[i] = m
  IN  IF selected = None THEN Refusal("not_recognized")
      ELSE IF authorization # <<>> /\ authorization[1].scheme = "AEP"
      THEN IF ~advertised(Jwt) THEN Refusal("unsupported_authentication_method")
           ELSE IF matching(Jwt) = {} THEN Refusal("not_recognized")
           ELSE Principal(CHOOSE c \in matching(Jwt) : TRUE)
      ELSE IF settled # {}
      THEN LET first == CHOOSE i \in settled : \A j \in settled : i <= j
           IN  Principal(CHOOSE c \in matching(methods[first]) : TRUE)
      ELSE IF parsed # None /\ ~advertised(MethodNamed(parsed))
      THEN Refusal("unsupported_authentication_method")
      ELSE Refusal(IF presented THEN "not_recognized" ELSE "authentication_required")

-----------------------------------------------------------------------------
(* The challenge.  WWW-Authenticate is a sequence of [scheme, params], and *)
(* params one of pairs; the reader takes all that follows "AEP" for the    *)
(* parameters of one challenge.                                            *)
Challenge(serviceDid, inspect, reason) ==
  <<[scheme |-> "AEP",
     params |-> <<<<"service_did", serviceDid>>, <<"inspect", inspect>>, <<"reason", reason>>>>]>>

Understood(field, secureUrls) ==
  LET params == FlattenSeq([i \in DOMAIN field |-> field[i].params])
      given(name) == {params[i][2] : i \in {j \in DOMAIN params : params[j][1] = name}}
      the(name) == IF given(name) = {} THEN None ELSE CHOOSE v \in given(name) : TRUE
  IN  IF \/ field = <<>> \/ field[1].scheme # "AEP"
         \/ \E i, j \in DOMAIN params : i # j /\ params[i][1] = params[j][1]
         \/ given("service_did") = {} \/ given("inspect") \intersect secureUrls = {}
      THEN None
      ELSE [serviceDid |-> the("service_did"), inspect |-> the("inspect"), reason |-> the("reason")]
=============================================================================

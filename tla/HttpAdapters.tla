----------------------------- MODULE HttpAdapters -----------------------------
(***************************************************************************)
(* The adapters that put a Service behind Express, Fastify, Hono and       *)
(* Next.js (packages/adapters/*/src/index.ts), the part of the Service     *)
(* that they call (createAepService in packages/service/src/index.ts) and  *)
(* the Agent's requests that they are to answer.  What each framework      *)
(* makes of a request on the wire is modelled from how its adapter uses    *)
(* it.                                                                     *)
(*                                                                         *)
(* A request on the wire is [method, target, seen, authorization, key,     *)
(* body]: target is [form, origin, path], seen the origin that the server  *)
(* believes to be, and the two fields are the sequences of their lines.    *)
(* What is missing, and a body that is no JSON, is None.                   *)
(***************************************************************************)
EXTENDS Naturals, Sequences, TLC

CONSTANTS
  None,
  Join(_),           \* what becomes of several lines of a field in one text
  AssertionIn(_),    \* the credentials of an AEP Authorization text, "" if it is not exactly one
  IsBlank(_),        \* texts that trim() leaves nothing of
  Handle(_, _),      \* what a command's handler answers to an Agent's call
  PathOf(_),         \* the path of a command in the Inspect document
  Authenticate(_, _) \* the Agent that an assertion is of, for a command, or None

Node == {"express", "fastify"}
Fetch == {"hono", "next"}
Commands == {"enroll", "grant", "revoke", "status"}

-----------------------------------------------------------------------------
(* The frameworks: Node keeps the first of several Authorization lines and *)
(* joins the others; Headers joins all.  Bodies that are no JSON are left  *)
(* out, by the parsers of the adapters' READMEs and by requestBody.        *)
Joined(lines) == IF lines = <<>> THEN None ELSE Join(lines)
AuthorizationField(adapter, lines) ==
  IF adapter \in Node /\ lines # <<>> THEN lines[1] ELSE Joined(lines)

(* singleFieldValue: a field may also come as a list, and then presents    *)
(* one value or none.                                                      *)
SingleValue(value, isList) ==
  IF ~isList THEN value ELSE IF Len(value) = 1 THEN value[1] ELSE None
BaselineAssertion(value) == IF value = None THEN "" ELSE AssertionIn(value)

(* What the adapters read of a request: Express and Fastify the fields by  *)
(* their names and the body that was parsed before, the others through     *)
(* Headers, and the body themselves (requestBody).                         *)
ExpressReads(request) ==
  [authorization |-> SingleValue(AuthorizationField("express", request.authorization), FALSE),
   key |-> SingleValue(Joined(request.key), FALSE), body |-> request.body]
FastifyReads(request) ==
  [authorization |-> SingleValue(AuthorizationField("fastify", request.authorization), FALSE),
   key |-> SingleValue(Joined(request.key), FALSE), body |-> request.body]
HonoReads(request) ==
  [authorization |-> Joined(request.authorization), key |-> Joined(request.key), body |-> request.body]
NextReads(request) ==
  [authorization |-> Joined(request.authorization), key |-> Joined(request.key), body |-> request.body]

(* And what they hand to their Service for a command.                      *)
Call(adapter, command, request) ==
  LET read == CASE adapter = "express" -> ExpressReads(request) [] adapter = "fastify" -> FastifyReads(request)
                [] adapter = "hono" -> HonoReads(request) [] adapter = "next" -> NextReads(request)
  IN  [command |-> command,
       assertion |-> BaselineAssertion(read.authorization),
       key |-> IF command = "status" \/ read.key = None THEN "" ELSE read.key,
       body |-> IF command = "status" THEN None ELSE read.body]

-----------------------------------------------------------------------------
(* createAepService: a command is authenticated, an Enroll is for the      *)
(* Agent that signs, and then its handler checks request and key.  A body  *)
(* is [agent, key] for Enroll, its key optional; others have an agent that *)
(* counts for nothing.                                                     *)
Problem(code, status) ==
  [status |-> status, type |-> "application/problem+json", body |-> code,
   headers |-> IF status = 401 THEN ("WWW-Authenticate" :> code) ELSE <<>>]

HandlerRefuses(call) ==
  /\ call.command # "status"
  /\ \/ call.body = None \/ IsBlank(call.key)
     \/ call.command = "enroll" /\ call.body.key \notin {None, call.key}

Serve(call) ==
  LET agent == Authenticate(call.command, call.assertion) IN
  CASE agent = None -> Problem("not_recognized", 401)
    [] agent # None /\ call.command = "enroll" /\ call.body = None -> Problem("invalid_request", 400)
    [] agent # None /\ call.command = "enroll" /\ call.body # None /\ call.body.agent # agent ->
         Problem("not_recognized", 401)
    [] OTHER -> IF HandlerRefuses(call) THEN Problem("invalid_request", 400)
                ELSE Handle(agent, call)

(* The answer on the wire: Express sets the media type before the other    *)
(* headers, the rest after them.                                           *)
Typed(result) == "Content-Type" :> result.type
ExpressAnswer(result) ==
  [status |-> result.status, body |-> result.body, headers |-> result.headers @@ Typed(result)]
FastifyAnswer(result) == [status |-> result.status, body |-> result.body, headers |-> Typed(result) @@ result.headers]
HonoAnswer(result) == [body |-> result.body, status |-> result.status, headers |-> Typed(result) @@ result.headers]
NextAnswer(result) == [body |-> result.body, headers |-> Typed(result) @@ result.headers, status |-> result.status]
Answer(adapter, result) ==
  CASE adapter = "express" -> ExpressAnswer(result) [] adapter = "fastify" -> FastifyAnswer(result)
    [] adapter = "hono" -> HonoAnswer(result) [] adapter = "next" -> NextAnswer(result)

CommandAnswer(adapter, command, request) ==
  Answer(adapter, Serve(Call(adapter, command, request)))

-----------------------------------------------------------------------------
(* The routes that an adapter registers of an Inspect document, given its  *)
(* paths; in Next.js each is a file, exporting what createNextAepRoute     *)
(* returns.  And how the Agent asks for a command.                         *)
MethodOf(command) == IF command = "status" THEN "GET" ELSE "POST"
Routes(inspectPath) ==
  {[method |-> "GET", path |-> inspectPath, to |-> "inspect"]} \union
  {[method |-> MethodOf(c), path |-> PathOf(c), to |-> c] : c \in Commands}
AgentMethod(command) == IF command = "status" THEN "GET" ELSE "POST"

NextRoute(command, inspectPath) ==
  [method |-> IF command \in {"inspect", "status"} THEN "GET" ELSE "POST",
   path |-> IF command = "inspect" THEN inspectPath ELSE PathOf(command), to |-> command]

(* The Inspect handlers; those for Node refuse methods other than GET.     *)
Inspected(document) == [status |-> 200, type |-> "application/aep+json", body |-> document, headers |-> <<>>]
NotGet == [Problem("invalid_request", 405) EXCEPT !.headers = ("Allow" :> "GET")]
ExpressInspect(method, document) ==
  ExpressAnswer(IF method \in {None, "GET"} THEN Inspected(document) ELSE NotGet)
FastifyInspect(method, document) ==
  FastifyAnswer(IF method \in {None, "GET"} THEN Inspected(document) ELSE NotGet)
HonoInspect(document) == HonoAnswer(Inspected(document))
NextInspect(document) == NextAnswer(Inspected(document))
InspectAnswer(adapter, method, document) ==
  CASE adapter = "express" -> ExpressInspect(method, document)
    [] adapter = "fastify" -> FastifyInspect(method, document)
    [] adapter = "hono" -> HonoInspect(document) [] adapter = "next" -> NextInspect(document)

-----------------------------------------------------------------------------
(* The URL of a protected resource, which an assertion has to be bound to: *)
(* at a configured base for the one kind, of which the target can change   *)
(* nothing, and the request's own for the other.  A target that is no URL  *)
(* throws.                                                                 *)
ConfiguredUrl(target, base) ==
  IF target.form = "other" THEN None ELSE [origin |-> base, path |-> target.path]
OwnUrl(target, seen) ==
  [origin |-> IF target.form = "absolute" THEN target.origin ELSE seen, path |-> target.path]
ProtectedUrl(adapter, request, base) ==
  IF adapter \in Node THEN ConfiguredUrl(request.target, base) ELSE OwnUrl(request.target, request.seen)

(* A protected-resource handler tells the application of the principal and *)
(* then lets it go on, once, unless it fails to listen; for Next.js the    *)
(* application answers at once.  Or the handler answers itself.            *)
Failed == "failed"
ExpressProtected(result, listens) ==
  IF result.authenticated THEN IF listens THEN [told |-> result.principal, proceeds |-> "next"] ELSE Failed
  ELSE ExpressAnswer(result.response)
FastifyProtected(result, listens) ==
  IF result.authenticated THEN IF listens THEN [told |-> result.principal, proceeds |-> "return"] ELSE Failed
  ELSE FastifyAnswer(result.response)
HonoProtected(result, listens) ==
  IF result.authenticated THEN IF listens THEN [told |-> result.principal, proceeds |-> "next"] ELSE Failed
  ELSE HonoAnswer(result.response)
NextProtected(result, listens) ==
  IF result.authenticated THEN IF listens THEN [told |-> result.principal, proceeds |-> "answer"] ELSE Failed
  ELSE NextAnswer(result.response)

-----------------------------------------------------------------------------
(* resolveIdempotencyKey, which core offers for the same purpose: the key  *)
(* of a list of lines and the copy in the body, or None where it throws.   *)
ResolvedKey(lines, copy) ==
  IF /\ Len(lines) = 1 /\ lines[1] # "" /\ copy \in {None, lines[1]}
  THEN lines[1] ELSE None
=============================================================================

--------------------------- MODULE InspectDocuments ---------------------------
(***************************************************************************)
(* The Inspect document, from the configuration that a Service builds it   *)
(* of (packages/service/src/index.ts) through its validation               *)
(* (packages/core/src/inspect.ts) to what an Agent does by it              *)
(* (packages/agent/src/index.ts).  What throws gives None, and so is what  *)
(* is left out; a member of the wrong kind is one that is not among Texts. *)
(*                                                                         *)
(* An origin is [scheme, host]; a DID [method, parts], its parts as in     *)
(* DidWeb; an endpoint base [segments, slash], slash telling whether it    *)
(* ends in one; an OpenAPI reference [url, slash, closed] with a url       *)
(* [absolute, scheme, host, user] or one that is no URI reference; closed  *)
(* tells that no member is there that should not be.                       *)
(***************************************************************************)
EXTENDS Naturals, Sequences, Functions

CONSTANTS
  None,
  Major,                  \* the version of the protocol that is supported
  Texts,                  \* strings; some of them are:
  Names, ClaimNames, Methods, AbsoluteUris, SigningAlgorithms,
  Dids, Bases, Urls,      \* DIDs, bases that begin with "/", references
  LoopbackHosts,
  Documents,              \* lists of documents that are valid (ServiceDocuments)
  ServiceDocumentsUri,    \* the extension they come with
  DocumentOrigin(_, _)    \* the origin of didWebDocumentUrl, or None

Elements(list) == {list[i] : i \in DOMAIN list}
Given(value, default) == IF value = None THEN default ELSE value

Authenticated == {"enroll", "grant", "revoke", "status"}

-----------------------------------------------------------------------------
(* requireStringArray and optionalStringArray.                             *)
IsList(list, texts) == list # None /\ Elements(list) \subseteq texts
Optional(list, texts) == list = None \/ IsList(list, texts)

ValidVersion(version) == version \in Nat \X Nat /\ version[1] = Major
ValidAuthentication(methods) ==
  methods = None \/
    (IsList(methods, Names) /\ Len(methods) \in 1..16 /\ IsInjective(methods))
ValidBindings(bindings) == IsList(bindings, Names) /\ "http" \in Elements(bindings)
ValidClaims(claims) == claims = None \/ \A k \in DOMAIN claims : Optional(claims[k], ClaimNames)

(* The configuration of a grant type says whether a Revoke may name one    *)
(* of its credentials, or nothing.                                         *)
ValidConfigs(configs, types) ==
  configs = None \/
    \A t \in DOMAIN configs :
      /\ t \in Names /\ types # None /\ t \in Elements(types)
      /\ configs[t] \in {None, "true", "false"}
ValidCommands(supported, types, configs) ==
  /\ IsList(supported, Names) /\ Optional(types, Names) /\ ValidConfigs(configs, types)
  /\ "inspect" \in Elements(supported) /\ "authenticate" \notin Elements(supported)
  /\ {"grant", "revoke"} \intersect Elements(supported) # {} => types \notin {None, <<>>}

(* No plaintext, but for loopback literals, and no user information.       *)
ValidTransport(url) ==
  url.absolute => /\ ~url.user
                  /\ url.scheme = "https" \/ (url.scheme = "http" /\ url.host \in LoopbackHosts)
ValidHttp(base, openapi) ==
  /\ base \in Bases \union {None}
  /\ openapi # None => /\ openapi.closed /\ openapi.url \in Urls /\ ValidTransport(openapi.url)
                       /\ openapi.slash \in {"strict", "equivalent"}

ValidIdentity(methods, supported) ==
  /\ IsList(methods, Methods)
  /\ supported # None /\ Authenticated \intersect Elements(supported) # {} => methods # <<>>

ValidServiceDocuments(documents, extensions) ==
  documents # None =>
    /\ documents \in Documents
    /\ extensions # None /\ ServiceDocumentsUri \in Elements(extensions)

(* validateInspectDocument.                                                *)
Valid(d) ==
  /\ ValidVersion(d.version) /\ ValidAuthentication(d.authentication)
  /\ ValidBindings(d.bindings) /\ ValidClaims(d.claims)
  /\ ValidCommands(d.commands, d.types, d.configs)
  /\ IsList(d.algorithms, Texts) /\ SigningAlgorithms \subseteq Elements(d.algorithms)
  /\ Optional(d.extensions, AbsoluteUris)
  /\ ValidHttp(d.base, d.openapi) /\ ValidIdentity(d.methods, d.commands)
  /\ d.did \in Dids
  /\ ValidServiceDocuments(d.documents, d.extensions)

-----------------------------------------------------------------------------
(* buildInspectDocument.  The options have a grant type as [type, config,  *)
(* handled], and the default of what is None.                              *)
Types(options) == [i \in DOMAIN options.types |-> options.types[i].type]
Configured(options) ==
  LET some == {i \in DOMAIN options.types : options.types[i].config # None} IN
  IF some = {} THEN None
  ELSE [t \in {options.types[i].type : i \in some} |->
          options.types[CHOOSE i \in some : options.types[i].type = t].config]

(* [...new Set([...])]: the extension is listed once.                      *)
Extensions(options) ==
  LET given == Given(options.extensions, <<>>) IN
  IF options.documents = None \/ ServiceDocumentsUri \in Elements(given) THEN given
  ELSE Append(given, ServiceDocumentsUri)

Commands(options) ==
  IF options.types = <<>> THEN <<"enroll", "inspect", "status">>
  ELSE <<"enroll", "grant", "inspect", "revoke", "status">>

Build(options) ==
  LET document ==
        [version |-> <<Major, 0>>,
         authentication |-> IF options.authentication = <<>> THEN None ELSE options.authentication,
         bindings |-> <<"http">>, claims |-> options.claims, commands |-> Commands(options),
         types |-> IF options.types = <<>> THEN None ELSE Types(options),
         configs |-> Configured(options), algorithms |-> options.algorithms,
         extensions |-> Extensions(options),
         documents |-> IF options.documents = <<>> THEN None ELSE options.documents,
         base |-> Given(options.base, [segments |-> <<"aep">>, slash |-> TRUE]),
         openapi |-> options.openapi, methods |-> options.methods, did |-> options.did]
  IN  IF /\ IsInjective(options.methods) /\ IsInjective(Types(options))
         /\ options.methods # <<>> /\ Valid(document)
      THEN document ELSE None

(* createGrantHandlerMap: the types that the Service then serves.          *)
Served(options) == {options.types[i].type : i \in {j \in DOMAIN options.types : options.types[j].handled}}

-----------------------------------------------------------------------------
(* The origin that a reference to a Service leads to: a reference is a     *)
(* DID, a URL or a bare host, as [is, scheme, host, user], its host None   *)
(* if it is none.                                                          *)
Resolved(reference) ==
  LET scheme == IF reference.is = "url" THEN reference.scheme ELSE "https" IN
  IF /\ reference.host # None /\ ~reference.user
     /\ scheme = "https" \/ (scheme = "http" /\ reference.host \in LoopbackHosts)
  THEN [scheme |-> scheme, host |-> reference.host] ELSE None

(* isServiceDidBoundToOrigin, and the Agent's validateServiceIdentity of a *)
(* document that it got from an origin.                                    *)
BoundToOrigin(did, origin, loopback) ==
  /\ did.method = "web" /\ DocumentOrigin(did.parts, loopback) # None
  /\ DocumentOrigin(did.parts, loopback) = origin
IdentityFits(d, origin) == BoundToOrigin(d.did, origin, origin.scheme = "http")

(* selectGrantType: the Agent's first preference that is advertised.       *)
SelectedType(d, preferred) ==
  LET advertised == Given(d.types, <<>>)
      wanted     == Given(preferred, advertised)
      fits       == {i \in DOMAIN wanted : wanted[i] \in Elements(advertised)}
  IN  IF fits = {} THEN None ELSE wanted[CHOOSE i \in fits : \A j \in fits : i <= j]

(* selectedSigningAlgorithm: one that the Agent's signer is set to, if the  *)
(* Service advertises it, or else the first advertised one that is known.  *)
SelectedAlgorithm(advertised, configured) ==
  LET known == {i \in DOMAIN advertised : advertised[i] \in SigningAlgorithms} IN
  CASE configured # None ->
         IF advertised = <<>> \/ configured \in Elements(advertised) THEN configured ELSE None
    [] configured = None /\ known # {} ->
         advertised[CHOOSE i \in known : \A j \in known : i <= j]
    [] OTHER -> None

(* commandPathFromInspect, for the Agent and for the Service's router, and *)
(* where the Agent sends a command to.                                     *)
CommandPath(d, command) == Append(Given(d.base, [segments |-> <<"aep">>]).segments, command)
CommandUrl(d, origin, command) ==
  IF command \in Elements(d.commands) THEN [origin |-> origin, path |-> CommandPath(d, command)]
  ELSE None

(* What revokeService and enrollService ask of the document before they    *)
(* send anything.                                                          *)
MayRevoke(d, type, credential) ==
  /\ type # None => d.types # None /\ type \in Elements(d.types)
  /\ credential # None => d.configs # None /\ type \in DOMAIN d.configs /\ d.configs[type] = "true"
MayAcknowledge(d) == d.extensions # None /\ ServiceDocumentsUri \in Elements(d.extensions)
=============================================================================

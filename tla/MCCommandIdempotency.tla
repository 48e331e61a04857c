------------------------ MODULE MCCommandIdempotency ------------------------
(* Three calls contend for two keys with two materials, so that replays,   *)
(* conflicts, waits and re-runs all occur; no symmetry, as a liveness      *)
(* property is checked.                                                    *)
EXTENDS CommandIdempotency, Sequences, TLC

-----------------------------------------------------------------------------
(* Inspect documents over a few texts of every kind, and DIDs whose hosts  *)
(* have capitals, a port, or cannot be in a URL.                           *)
MCHostOf == [h \in {"s.example", "S.example", "localhost:1"} |->
               IF h = "S.example" THEN "s.example" ELSE h]
MCDecode == [p \in {"s.example", "S.example", "localhost%3A1", "<>", "team", ".."} |->
               IF p = "localhost%3A1" THEN "localhost:1" ELSE p]

Did == INSTANCE DidWeb WITH
  Placeholder <- "{}", Sample <- "check", Encode <- [t \in {"check"} |-> t], Decode <- MCDecode,
  HostOf <- MCHostOf, LoopbackHosts <- {"localhost:1"}, Segments <- {"team"}
MCDocumentOrigin(parts, loopback) ==
  LET url == Did!DocumentUrl(parts, loopback) IN
  IF url = None THEN None ELSE [scheme |-> url.scheme, host |-> url.parts[1]]

MCDid(host) == [method |-> "web", parts |-> <<host>>]
MCBase(name, slash) == [segments |-> <<name>>, slash |-> slash]
MCUrl(scheme, host) == [absolute |-> TRUE, scheme |-> scheme, host |-> host, user |-> FALSE]
MCUrls ==
  {[MCUrl(scheme, host) EXCEPT !.absolute = absolute, !.user = user] :
     scheme \in {"https", "http"}, host \in {"s.example", "localhost:1"},
     absolute \in BOOLEAN, user \in BOOLEAN}

Insp == INSTANCE InspectDocuments WITH
  Major <- 1, Names <- {"http", "inspect", "enroll", "grant", "revoke", "status", "api-key", "x1"},
  Texts <- {"EdDSA", "ES256", "Ed448"}, ClaimNames <- {"contact.email"}, Methods <- {"did:web"},
  AbsoluteUris <- {"urn:docs", "urn:x"}, SigningAlgorithms <- {"EdDSA", "ES256"},
  Dids <- {MCDid("s.example"), [method |-> "key", parts |-> <<"k">>]},
  Bases <- {MCBase("aep", TRUE), MCBase("api", TRUE), MCBase("api", FALSE)}, Urls <- MCUrls,
  LoopbackHosts <- {"localhost:1"}, Documents <- {<<"terms">>}, ServiceDocumentsUri <- "urn:docs",
  DocumentOrigin <- MCDocumentOrigin

(* A configuration that is right, and ones that differ from it in two      *)
(* members; for each member the values that alone make it wrong.           *)
MCType(type, config, handled) == [type |-> type, config |-> config, handled |-> handled]
MCRight ==
  [authentication |-> <<"api-key">>, claims |-> [required |-> <<"contact.email">>, optional |-> <<>>],
   types |-> <<MCType("x1", None, TRUE), MCType("api-key", "true", TRUE)>>,
   algorithms |-> <<"ES256", "EdDSA">>, extensions |-> <<"urn:x">>, documents |-> <<"terms">>,
   base |-> MCBase("api", FALSE), openapi |-> None, methods |-> <<"did:web">>, did |-> MCDid("s.example")]
MCOpenapi(url, slash, closed) == [url |-> url, slash |-> slash, closed |-> closed]
MCWrong ==
  [authentication |-> {<<"x1", "x1">>, <<"X1">>, [i \in 1..17 |-> "x1"]},
   claims |-> {[required |-> <<"Contact">>, optional |-> <<>>]},
   types |-> {<<MCType("x1", None, TRUE), MCType("x1", None, TRUE)>>, <<MCType("X1", None, TRUE)>>,
              <<MCType("x1", "yes", TRUE)>>},
   algorithms |-> {<<>>, <<"ES256">>, <<"ES256", "EdDSA", None>>},
   extensions |-> {<<"x">>}, documents |-> {<<"terms", "terms">>}, base |-> {MCBase("aep", FALSE)},
   openapi |-> {MCOpenapi(MCUrl("http", "s.example"), "strict", TRUE),
                MCOpenapi([MCUrl("https", "s.example") EXCEPT !.user = TRUE], "strict", TRUE),
                MCOpenapi(MCUrl("https", "s.example"), "loose", TRUE),
                MCOpenapi(MCUrl("https", "s.example"), "strict", FALSE)},
   methods |-> {<<>>, <<"did:web", "did:web">>, <<"DID">>}, did |-> {MCDid("t.example")}]
MCFine ==
  [authentication |-> {<<>>}, claims |-> {[required |-> <<>>, optional |-> None]},
   types |-> {<<>>, <<MCType("api-key", None, FALSE)>>, <<MCType("x1", "false", TRUE)>>},
   algorithms |-> {<<"Ed448", "EdDSA", "ES256">>, <<"EdDSA", "ES256">>},
   extensions |-> {None, <<"urn:docs", "urn:x">>}, documents |-> {None, <<>>},
   base |-> {None, MCBase("api", TRUE)},
   openapi |-> {MCOpenapi(MCUrl("http", "localhost:1"), "strict", TRUE),
                MCOpenapi([MCUrl("http", "s.example") EXCEPT !.absolute = FALSE], "equivalent", TRUE)},
   methods |-> {}, did |-> {[method |-> "key", parts |-> <<"k">>]}]
MCMembers == DOMAIN MCRight
MCFineOptions ==
  {MCRight} \union UNION {{[MCRight EXCEPT ![p] = v, ![q] = w] : v \in MCFine[p], w \in MCFine[q]} :
                            p \in MCMembers, q \in MCMembers}

(* A Service starts with every configuration that is right in all members, *)
(* and with none that is wrong in one.                                     *)
ASSUME OnlyRightConfigurationsAreBuilt ==
  /\ \A o \in MCFineOptions : Insp!Build(o) # None
  /\ \A o \in MCFineOptions : \A p \in MCMembers : \A v \in MCWrong[p] :
       Insp!Build([o EXCEPT ![p] = v]) = None

(* What the document says is what the Service does: each command and grant *)
(* type that an Agent picks by it is served, if every type came with its   *)
(* handler; an Agent may name a credential in a Revoke where the handler's *)
(* configuration says so; it may declare documents where the Service was   *)
(* given a list of them, even an empty one; and it signs with an algorithm *)
(* of the document that every Service verifies, or says that it cannot.    *)
ASSUME DocumentsMeanWhatServicesDo ==
  \A o \in MCFineOptions :
    LET d == Insp!Build(o)
        origin == [scheme |-> "https", host |-> "s.example"]
        served == Insp!Served(o) IN
    /\ Insp!SelectedType(d, None) \in IF o.types = <<>> THEN {None}
                                      ELSE {o.types[i].type : i \in DOMAIN o.types}
    /\ \A preferred \in {<<"api-key", "x1">>, <<"x2", "x1">>, <<>>} :
         LET type == Insp!SelectedType(d, preferred) IN
         type # None /\ (\A i \in DOMAIN o.types : o.types[i].handled) => type \in served
    /\ \A command \in Insp!Authenticated :
         Insp!CommandUrl(d, origin, command) = None <=> command \in {"grant", "revoke"} /\ o.types = <<>>
    /\ \A type \in {"x1", "api-key"} :
         Insp!MayRevoke(d, type, "credential") <=>
           \E i \in DOMAIN o.types : o.types[i].type = type /\ o.types[i].config = "true"
    /\ Insp!MayAcknowledge(d) <=> o.documents # None \/ o.extensions = <<"urn:docs", "urn:x">>
    /\ \A configured \in {None, "ES256", "EdDSA", "Ed448"} :
         LET algorithm == Insp!SelectedAlgorithm(d.algorithms, configured) IN
         algorithm # None /\ (algorithm \in {"ES256", "EdDSA"} \/ configured = "Ed448")
           <=> configured # "Ed448" \/ "Ed448" \in Insp!Elements(o.algorithms)

(* A document that another program wrote may leave members out, but a      *)
(* command that is to be signed for needs a method of identity, and grants *)
(* need their types.                                                       *)
ASSUME OthersMayLeaveOut ==
  LET d == Insp!Build(MCRight)
      least == [d EXCEPT !.authentication = None, !.claims = None, !.types = None, !.configs = None,
                         !.extensions = None, !.documents = None, !.base = None, !.methods = <<>>]
  IN  \A commands \in {<<>>, <<"inspect">>, <<"enroll">>, <<"inspect", "status">>, <<"inspect", "grant">>} :
        \A methods \in {<<>>, <<"did:web">>} : \A types \in {None, <<>>, <<"x1">>} :
          Insp!Valid([least EXCEPT !.commands = commands, !.methods = methods, !.types = types]) <=>
            \/ commands = <<"inspect">>
            \/ methods # <<>> /\ commands = <<"inspect", "status">>
            \/ methods # <<>> /\ commands = <<"inspect", "grant">> /\ types = <<"x1">>

(* An endpoint base means the same with a slash at its end and without,    *)
(* and its default is "/aep/".                                             *)
ASSUME BasesAgree ==
  /\ Insp!CommandPath([base |-> None], "enroll") = <<"aep", "enroll">>
  /\ \A command \in Insp!Authenticated :
       Insp!CommandPath(Insp!Build([MCRight EXCEPT !.base = MCBase("api", TRUE)]), command) =
         Insp!CommandPath(Insp!Build(MCRight), command)
  /\ Insp!CommandPath(Insp!Build([MCRight EXCEPT !.base = None]), "enroll") = <<"aep", "enroll">>

(* Whoever goes where the DID of a Service refers to finds an origin that  *)
(* this DID is bound to, or no DID document exists; and no DID is bound to *)
(* two origins, the loopback scheme apart.                                 *)
MCOrigins == {[scheme |-> scheme, host |-> host] : scheme \in {"https", "http"},
                                                   host \in {"s.example", "localhost:1"}}
MCDids == {[method |-> "web", parts |-> <<h>> \o path] :
             h \in {"s.example", "S.example", "localhost%3A1", "<>"}, path \in {<<>>, <<"team">>, <<"..">>}}
ASSUME ReferencesLeadToBoundServices ==
  \A did \in MCDids :
    LET host   == IF did.parts[1] = "<>" THEN None ELSE MCHostOf[MCDecode[did.parts[1]]]
        origin == Insp!Resolved([is |-> "did", scheme |-> "", host |-> host, user |-> FALSE])
        d      == [did |-> did]
    IN  /\ MCDocumentOrigin(did.parts, FALSE) # None =>
             origin # None /\ Insp!IdentityFits(d, origin)
        /\ \A p, q \in MCOrigins :
             Insp!IdentityFits(d, p) /\ Insp!IdentityFits(d, q) => p.host = q.host
        /\ \A p \in MCOrigins : Insp!IdentityFits(d, p) => MCDocumentOrigin(did.parts, FALSE) # None
        /\ \A p \in MCOrigins : p.scheme = "http" /\ Insp!IdentityFits(d, p) => p.host = "localhost:1"

(* A URL or a bare host leads to its own origin, in the open only on       *)
(* loopback hosts, and never with user information.                        *)
ASSUME ReferencesKeepTheirOrigin ==
  \A is \in {"url", "bare"} : \A scheme \in {"https", "http", "ftp"} :
    \A host \in {"s.example", "localhost:1", None} : \A user \in BOOLEAN :
      LET origin == Insp!Resolved([is |-> is, scheme |-> scheme, host |-> host, user |-> user]) IN
      origin # None => /\ origin.host = host /\ ~user
                       /\ origin.scheme = "http" => is = "url" /\ host = "localhost:1"
                       /\ is = "bare" => origin.scheme = "https"

-----------------------------------------------------------------------------
(* Service documents, with limits small enough to be exceeded.             *)
MCDocumentUrl(scheme, host) == [scheme |-> scheme, host |-> host, user |-> FALSE]
MCParagraph(length) == [type |-> "paragraph", text |-> length]
MCDocument(content, summary) ==
  [format |-> <<"aep-service-document", "1.0">>, id |-> "terms", content |-> content, summary |-> summary]
MCParse(name) == [MCDocument(<<MCParagraph(1)>>, None) EXCEPT !.id = name]

Docs == INSTANCE ServiceDocuments WITH
  Ids <- {"terms", "privacy"}, DocumentTypes <- {"terms_of_service"},
  MediaTypes <- {"text/html", "application/json", "text/plain"}, LoopbackHosts <- {"localhost:1"},
  Urls <- {MCDocumentUrl(scheme, host) : scheme \in {"https", "http"},
                                         host \in {"s.example", "t.example", "localhost:1"}},
  MaxDocuments <- 2, MaxRepresentations <- 2, MaxTitle <- 2, MaxText <- 2, MaxBlocks <- 3, MaxDepth <- 2,
  MaxItems <- 2, MaxRedirects <- 2, MaxBytes <- 1, MaxTimeout <- 9, Parse <- MCParse

(* Portable documents: blocks nested up to three levels, and by a          *)
(* definition that follows their structure, those that are to be accepted. *)
MCSection(blocks) == [type |-> "section", title |-> 1, blocks |-> blocks]
MCLeaves == {MCParagraph(1), MCParagraph(3), [type |-> "bulleted_list", items |-> <<1, 2>>],
             [type |-> "bulleted_list", items |-> <<1, 1, 1>>], [type |-> "other"]}
MCLists(blocks) == {<<>>} \union {<<b>> : b \in blocks} \union {<<b, c>> : b \in blocks, c \in blocks}
MCDeeper(lists) == {<<MCSection(l)>> : l \in lists} \union {<<MCParagraph(1), MCSection(l)>> : l \in lists}
MCShallow == MCLists(MCLeaves)
MCContents == MCShallow \union MCDeeper(MCShallow) \union MCDeeper(MCDeeper(MCLists({MCParagraph(1)})))
               \union MCDeeper(MCDeeper(MCDeeper({<<MCParagraph(1)>>})))

RECURSIVE MCCount(_), MCNests(_, _)
MCCount(blocks) ==
  IF blocks = <<>> THEN 0
  ELSE 1 + (IF Head(blocks).type = "section" THEN MCCount(Head(blocks).blocks) ELSE 0) + MCCount(Tail(blocks))
MCNests(blocks, sections) ==
  /\ blocks # <<>>
  /\ \A i \in DOMAIN blocks :
       \/ blocks[i] \in {MCParagraph(1), [type |-> "bulleted_list", items |-> <<1, 2>>]}
       \/ /\ blocks[i].type = "section" /\ sections > 0
          /\ MCNests(blocks[i].blocks, sections - 1)

ASSUME DocumentsAreBounded ==
  \A content \in MCContents : \A summary \in {None, <<>>, <<MCParagraph(1)>>} :
    Docs!ValidDocument(MCDocument(content, summary)) <=>
      /\ MCNests(content, 2) /\ summary # <<>>
      /\ MCCount(content) + (IF summary = None THEN 0 ELSE 1) <= 3

(* Declarations name no document twice, and a descriptor always has a page *)
(* for people, at a URL that is not in plaintext and names no user.        *)
MCDescriptor(media, urls) ==
  [id |-> "terms", type |-> "terms_of_service", title |-> 2, enrollment |-> "required",
   representations |-> [i \in DOMAIN media |-> [media |-> media[i], url |-> urls[i]]]]
MCLocations ==
  {MCDocumentUrl("https", "s.example"), MCDocumentUrl("https", "t.example"), MCDocumentUrl("http", "localhost:1"),
   MCDocumentUrl("http", "s.example"), [MCDocumentUrl("https", "s.example") EXCEPT !.user = TRUE]}
MCPages == MCDocumentUrl("https", "s.example")

ASSUME DescriptorsCanBeRead ==
  /\ \A list \in MCLists({"terms", "privacy", "?"}) \union {<<"terms", "privacy", "x">>} :
       Docs!ValidIds(list) <=> list \in {<<>>, <<"terms">>, <<"privacy">>,
                                          <<"terms", "privacy">>, <<"privacy", "terms">>}
  /\ \A media \in (MCLists({"text/html", "application/json", "Text/HTML"}) \ {<<>>})
                   \union {<<"text/html", "application/json", "text/plain">>} : \A url \in MCLocations :
       LET d == MCDescriptor(media, [i \in DOMAIN media |-> url]) IN
       /\ Docs!ValidDescriptors(<<d>>) <=>
            /\ media \in {<<"text/html">>, <<"text/html", "application/json">>, <<"application/json", "text/html">>}
            /\ ~url.user /\ (url.scheme = "http" => url.host = "localhost:1")
       /\ ~Docs!ValidDescriptors(<<d, d>>)
       /\ Docs!ValidDescriptors(<<d>>) =>
            /\ Docs!ValidDescriptors(<<d, [d EXCEPT !.id = "privacy"]>>)
            /\ ~Docs!ValidDescriptors(<<[d EXCEPT !.title = 3]>>)

(* Reading a document, over webs that redirect and answer in every way:    *)
(* at most MaxRedirects are followed, never to plaintext but on a loopback *)
(* host, nor to it from https; the result is the document described, whole *)
(* and valid, or else the page for people.                                 *)
MCGood == [status |-> 200, location |-> None, type |-> "application/json", encoding |-> None,
           bytes |-> 1, text |-> "terms"]
MCAnswers ==
  {None, MCGood, [MCGood EXCEPT !.status = 404], [MCGood EXCEPT !.text = "privacy"], [MCGood EXCEPT !.bytes = 2],
   [MCGood EXCEPT !.encoding = "gzip"], [MCGood EXCEPT !.text = None]} \union
  {[MCGood EXCEPT !.status = 302, !.location = l] : l \in MCLocations \union {None}}
MCFirst(url) == MCDescriptor(<<"text/html", "application/json">>, <<MCPages, url>>)

ASSUME DocumentsAreReadSafely ==
  \A first, second, third \in MCAnswers : \A aborted \in BOOLEAN :
    LET web == [u \in MCLocations |->
                  CASE u = MCPages -> first [] u.host = "t.example" -> second [] OTHER -> third]
        start  == MCDocumentUrl("https", "t.example")
        chain  == Docs!Requested(web, start)
        result == Docs!Read(MCFirst(start), web, 5, aborted) IN
    /\ Len(chain) <= 3
    /\ \A i \in DOMAIN chain : i < Len(chain) => Docs!Reachable(chain[i]) /\ chain[i + 1].scheme = "https"
    /\ result = None <=> aborted
    /\ ~aborted =>
         /\ result.web = MCPages
         /\ result.document # None <=>
              LET last == chain[Len(chain)] IN Docs!Reachable(last) /\ web[last] = MCGood
         /\ result.document # None => result.document.id = "terms" /\ result.reason = None

(* From a loopback host it may also go on in plaintext; without a portable *)
(* representation nothing is requested.                                    *)
ASSUME LoopbackDocuments ==
  LET here == MCDocumentUrl("http", "localhost:1")
      to(u) == [MCGood EXCEPT !.status = 301, !.location = u]
      web == [u \in MCLocations |-> IF u = here THEN to(MCPages) ELSE MCGood] IN
  /\ Docs!Read(MCFirst(here), web, 5, FALSE).document # None
  /\ Docs!Requested([web EXCEPT ![MCPages] = to(here)], here) = <<here, MCPages>>
  /\ Docs!Read(MCFirst(here), [web EXCEPT ![here] = to(here)], 5, FALSE).document = None
  /\ Docs!Read(MCDescriptor(<<"text/html">>, <<here>>), web, 0, TRUE).reason = "not_advertised"
  /\ Docs!Read(MCFirst(here), web, 0, FALSE) = None
  /\ Docs!Read(MCFirst(here), web, 10, FALSE) = None
=============================================================================

------------------------ MODULE MCPlatformIdentities ------------------------
EXTENDS PlatformIdentities, Sequences, TLC

(* A policy that allows every transition except out of "terminated".       *)
MCMayTransition == {"active", "suspended"} \X Statuses

MCSymmetry == Permutations(Calls) \union Permutations(Keys) \union Permutations(Ids)

-----------------------------------------------------------------------------
(* The DIDs of these identities, over texts of every kind: hosts with and  *)
(* without capitals and a port, segments that need escapes or are none,    *)
(* and parts that another program may have escaped in its own way.         *)
MCHostOf == [t \in {"h.example", "H.example", "localhost:1"} |->
               IF t = "H.example" THEN "h.example" ELSE t]
MCSegments == {"agents", "team", "p:q", "check"}
MCIds == MCSegments \union {"x/y", "a b", ".."}
MCEncode == [t \in DOMAIN MCHostOf \union MCIds |->
               CASE t = "localhost:1" -> "localhost%3A1" [] t = "p:q" -> "p%3Aq"
                 [] t = "x/y" -> "x%2Fy" [] t = "a b" -> "a%20b" [] OTHER -> t]
MCParts == {MCEncode[t] : t \in DOMAIN MCEncode} \union {"%68.example", "%61gents", "%"}
MCDecode == [q \in MCParts |->
               CASE q = "%" -> None [] q = "%61gents" -> "agents" [] q = "%68.example" -> "h.example"
                 [] OTHER -> CHOOSE t \in DOMAIN MCEncode : MCEncode[t] = q]

Did == INSTANCE DidWeb WITH
  Placeholder <- "{}", Sample <- "check", Encode <- MCEncode, Decode <- MCDecode,
  HostOf <- MCHostOf, LoopbackHosts <- {"localhost:1"}, Segments <- MCSegments

MCPrefixes == UNION {[1..n -> {"agents", "team", "p:q"}] : n \in 0..2}
MCTemplates ==
  {<<h>> \o middle \o <<last, "did.json">> :
     h \in {"h.example", "localhost:1"}, last \in {"{}", "check", "agents"},
     middle \in UNION {[1..n -> {"agents", "team", "p%3Aq", "{}"}] : n \in 0..2}}
MCIdentities == {[did |-> Did!AgentDid("h.example", <<"agents">>, id), status |-> status] :
                   id \in {"team", "p:q"}, status \in {"active", "suspended"}}
MCMethods ==
  LET method == [id : {None}, jwk : {None, "key1", "key2"}, relationships : {{}, {"authentication"}}]
  IN  {<<m>> : m \in method} \union {<<m, n>> : m \in method, n \in method}
MCKids(did) == [did : {did}, fragment : {None, 1, 2}]

(* Escapes are undone, and distinct identities have distinct DIDs.         *)
ASSUME EscapesAreUndone ==
  /\ \A t \in DOMAIN MCEncode : MCDecode[MCEncode[t]] = t
  /\ \A p, q \in MCPrefixes : \A i, j \in MCIds :
       Did!AgentDid("h.example", p, i) = Did!AgentDid("h.example", q, j) => p = q /\ i = j

(* A configuration that fits the id it is tried with fits every id: the    *)
(* URL on the record of an identity is where a Service looks, if it finds  *)
(* a place to look at all.  No prefix here has the sample in it.           *)
ASSUME ConfigurationCarriesOver ==
  \A h \in DOMAIN MCHostOf : \A p \in MCPrefixes : \A t \in MCTemplates :
    Did!Constructible(h, p, t) => \A id \in MCIds :
      Did!DocumentUrl(Did!AgentDid(h, p, id), FALSE) =
        IF id \in MCSegments THEN Did!Rendered(t, id) ELSE None
ASSUME SomeConfigurationFits ==
  \A h \in DOMAIN MCHostOf : \A p \in MCPrefixes :
    \E t \in MCTemplates : Did!Constructible(h, p, t)

(* With the sample in its prefix, a configuration may fit that id alone.   *)
ASSUME SampleInPrefix ==
  LET template == <<"h.example", "{}", "{}", "did.json">> IN
  /\ Did!Constructible("h.example", <<"check">>, template)
  /\ Did!DocumentUrl(Did!AgentDid("h.example", <<"check">>, "team"), FALSE)
       # Did!Rendered(template, "team")

(* A kid leads to the key of the method it names, while the identity is    *)
(* active, and from the place of its own document only.                    *)
ASSUME KidsNameTheirKeys ==
  \A agent \in MCIdentities : \A methods \in MCMethods :
    LET url == Did!DocumentUrl(agent.did, FALSE)
        web == url :> Did!Document(agent, methods)
        at(fragment) == IF fragment = None THEN 1 ELSE fragment
    IN  \A kid \in MCKids(agent.did) :
          Did!Resolve(agent.did, kid, FALSE, web) =
            IF agent.status = "active" /\ kid.fragment # 1 /\ at(kid.fragment) \in DOMAIN methods
            THEN methods[at(kid.fragment)].jwk ELSE None

(* What another Agent, or another spelling of the host, publishes there is *)
(* not believed, even under an id that is relative.                        *)
MCRelative(jwk) == [id |-> [did |-> None, fragment |-> 2], jwk |-> jwk, relationships |-> {}]
ASSUME DocumentsSpeakForThemselves ==
  \A agent, other \in MCIdentities : \A methods \in MCMethods \union {<<MCRelative("key1")>>} :
    LET did == [agent.did EXCEPT ![1] = "%68.example"] IN
    /\ other.did # agent.did => \A kid \in MCKids(agent.did) :
         Did!Resolve(agent.did, kid, FALSE,
                     Did!DocumentUrl(agent.did, FALSE) :> Did!Document(other, methods)) = None
    /\ Did!DocumentUrl(did, FALSE) = Did!DocumentUrl(agent.did, FALSE)
    /\ Did!Resolve(did, [did |-> did, fragment |-> None], FALSE,
                   Did!DocumentUrl(did, FALSE) :> Did!Document(agent, methods)) = None

(* A relative id names a method as well as an absolute one, unless it has  *)
(* no key, and only loopback hosts are asked without TLS.                  *)
ASSUME RelativeIdsAndLoopback ==
  /\ \A agent \in MCIdentities : \A jwk \in {None, "key1"} :
       LET second == [id |-> None, jwk |-> "key2", relationships |-> {}]
           web    == Did!DocumentUrl(agent.did, FALSE) :>
                       Did!Document(agent, <<MCRelative(jwk), second>>)
       IN  agent.status = "active" =>
             Did!Resolve(agent.did, [did |-> agent.did, fragment |-> 2], FALSE, web) =
               IF jwk = None THEN "key2" ELSE jwk
  /\ \A h \in DOMAIN MCHostOf : \A loopback \in BOOLEAN :
       Did!DocumentUrl(<<MCEncode[h]>>, loopback) =
         [scheme |-> IF loopback /\ h = "localhost:1" THEN "http" ELSE "https",
          parts |-> <<MCHostOf[h], ".well-known", "did.json">>]

-----------------------------------------------------------------------------
(* What the Platform writes: options that are right but for some members.  *)
Docs == INSTANCE PlatformDocuments WITH
  Longest <- 300, Major <- "1", Algorithms <- {"EdDSA", "ES256"}, SecureUrls <- {"https://h/{}"},
  Paths <- {"/ok", "/ok?x", "//elsewhere"}, SameOrigin <- {"/ok", "/ok?x"}, OriginPaths <- {"/ok"},
  Dids <- {"did:x"}

MCPaths == [Docs!Endpoints -> {"/ok", "/ok?x", "//elsewhere", "ok", None}]
MCOptions ==
  LET right == [e \in Docs!Endpoints |-> "/ok"]
      options(paths, majors, algorithms, maxima) ==
        [major : majors, template : {"https://h/{}", "http://h/{}"}, paths : paths,
         did : {None, "did:x", "x"}, name : {"", "p"}, algorithms : algorithms,
         methods : {None, <<>>, <<"did:web">>}, lifetime : {None, 0, 60, 61, 300, 301},
         hosted : {None, TRUE}, maximum : maxima]
  IN  options({right}, {None, "1", "2"}, {<<>>, <<"ES256">>, <<"ES256", "none">>},
              {None, 60, 300, 400})
        \union [major : {None}, template : {"https://h/{}"}, paths : MCPaths, did : {None},
                name : {"p"}, algorithms : {<<"EdDSA">>}, methods : {None}, lifetime : {None},
                hosted : {None}, maximum : {None}]

(* A discovery document that a Platform comes up with is read by an Agent, *)
(* its commands stay at the Platform, and it signs for the lifetime that   *)
(* the document promises to those who ask for none; whoever asks for too   *)
(* much is told so.                                                        *)
ASSUME DiscoveryIsUsable ==
  \A options \in MCOptions :
    LET document == Docs!Discovery(options) IN
    document # None =>
      /\ Docs!ReadDiscovery(document) = document
      /\ \A e \in Docs!Required : Docs!CommandPath(document, e) # None
      /\ Docs!SignedLifetime(document, options.maximum, None) = document.lifetime
      /\ \A lifetime \in {0, 1, 60, 61, 300, 350} :
           LET span == Docs!SignedLifetime(document, options.maximum, lifetime) IN
           /\ span \in {lifetime, Docs!Refused}
           /\ lifetime <= document.lifetime => span = lifetime
           /\ lifetime > 300 => span = Docs!Refused
ASSUME SomeDocumentsAreWritten ==
  \E options \in MCOptions : Docs!Discovery(options) # None /\ options.maximum = 60

(* Pages and answers that are written are read, whatever the totals and    *)
(* the times.                                                              *)
ASSUME AnswersAreRead ==
  /\ \A n \in 0..2 : \A total \in {None, 0, 1, 2, 3} :
       LET page == Docs!Page([i \in 1..n |-> i], total) IN
       page = None \/ (Docs!ReadPage(page) = page /\ page.total >= n)
  /\ \A retry \in {0, 1, 300, 301} :
       (Docs!Pending(retry) = None) \/ (Docs!ReadSign(Docs!Pending(retry)) # None)
  /\ \A options \in MCOptions : \A lifetime \in {None, 1, 300} :
       LET document == Docs!Discovery(options)
           span     == Docs!SignedLifetime(document, options.maximum, lifetime)
       IN  document # None /\ span # Docs!Refused =>
             LET reply == Docs!Completed("jwt", 5, span, options.maximum) IN
             reply # None /\ Docs!ReadSign(reply).expiresAt = 5 + span

(* The hosted verifier recognizes exactly the Platform's word for the      *)
(* Agent that the assertion names, at what it asked about.                 *)
ASSUME VerdictsAreUnderstood ==
  LET requests == [op : {"enroll", "grant"}, service : {"did:s", "did:t"}] IN
  /\ \A posed, about \in requests : \A agent, sub \in {"did:a", "did:b"} :
       /\ Docs!Recognizes(Docs!Verified(posed, agent), sub, about) <=>
            agent = sub /\ posed = about
       /\ ~Docs!Recognizes(Docs!Unrecognized(posed), sub, about)
  /\ \A reason \in {"verified", "not_recognized", "other"} : \A verified \in BOOLEAN :
       Docs!Verdict("did:a", "enroll", "did:s", reason, verified) # None =>
         Docs!Recognizes(Docs!Verdict("did:a", "enroll", "did:s", reason, verified),
                         "did:a", [op |-> "enroll", service |-> "did:s"]) <=> reason = "verified"

-----------------------------------------------------------------------------
(* The commands, one at a time.                                            *)
MCNumber == [t \in {"1", "60", "61", "300", "301"} |->
               CASE t = "1" -> 1 [] t = "60" -> 60 [] t = "61" -> 61 [] t = "300" -> 300 [] OTHER -> 301]
MCLowerName(n) ==
  CASE n \in {"Accept", "ACCEPT"} -> "accept" [] n \in {"Idempotency-Key", "idempotency-key"} -> "idempotency-key"
    [] n \in {"Authorization", "authorization"} -> "authorization" [] OTHER -> n
Cmd == INSTANCE PlatformCommands WITH
  Lower <- MCLowerName,
  Longest <- 300, Number <- MCNumber, Dids <- {"did:s", "did:t", "did:u"}, Resolvable <- {"did:s", "did:t", "t"}

MCSome(member, values) == {{}} \union {{<<member, v>>} : v \in values}
MCBodies ==
  {None, <<>>} \union
  {Cmd!Body(o \union j \union s \union r \union l) :
     o \in MCSome("op", {"enroll", "authenticate", "inspect"}), j \in MCSome("jti", {"j", " "}),
     s \in MCSome("service_did", {"did:s", "did:t", ""}), r \in MCSome("resource", {"r", ""}),
     l \in MCSome("lifetime_seconds", {"1", "61", "301", "0", "1e1"})}
MCVerifyBodies ==
  {None} \union
  {Cmd!Body(o \union a \union s \union r) :
     o \in MCSome("op", {"enroll", "authenticate", "inspect"}), a \in MCSome("client_assertion", {"jwt", " "}),
     s \in MCSome("service_did", {"did:s", "did:t", ""}), r \in MCSome("resource", {"r", ""})}
MCStatusBodies == {None, <<>>} \union {[status |-> s] : s \in {"active", "suspended", "gone", ""}}
MCRecords ==
  [did : {"did:a"}, id : {"pai_1"}, service : {"did:s", "did:t"}, algorithms : {<<"EdDSA">>}, status : Cmd!Statuses]
MCWho == [key : {None, "", "k"}, subject : {None, "", "owner"}, allowed : BOOLEAN]
MCClaims ==
  [op : {"enroll", "authenticate"}, jti : {"j", " "}, aud : {"did:s", "did:t", ""}, resource : {None, "r"},
   iat : {5}, exp : {5, 6, 66, 305, 306}]

(* A Platform reads in a request what the Agent asked for, and signs just  *)
(* that, for the identity it is asked to sign for, or refuses.             *)
ASSUME AsksAreHonoured ==
  \A claims \in MCClaims : \A maximum \in {None, 60, 300} : \A rec \in MCRecords :
    LET req == Cmd!SignRequest(claims)
        owner   == [key |-> "k", subject |-> "owner", allowed |-> TRUE]
        reply  == Cmd!Sign(req, maximum, owner, rec)
        span    == claims.exp - claims.iat IN
    /\ req = None <=> span \notin 1..300 \/ claims.jti = " " \/ claims.aud = "" \/
                            (claims.op = "authenticate" <=> claims.resource = None)
    /\ req # None =>
         /\ reply.status = 400 <=> maximum = 60 /\ span > 60
         /\ reply.status = 200 => reply.body = [iss |-> rec.did, sub |-> rec.did, aud |-> claims.aud, op |-> claims.op,
                                                 jti |-> claims.jti, resource |-> claims.resource, lifetime |-> span]
         /\ reply.status = 200 => rec.status = "active" /\ rec.service = claims.aud

(* Whoever may not use an identity is not told whether there is one, nor   *)
(* of which Service, nor how it does; and what cannot be read is told      *)
(* before anything is looked up.                                           *)
ASSUME StrangersLearnNothing ==
  \A who \in MCWho : \A rec \in MCRecords :
    LET hides(Answer(_)) == Answer(IF who.allowed THEN None ELSE rec) = Answer(None)
        stranger == [who EXCEPT !.allowed = FALSE] IN
    /\ hides(LAMBDA r : Cmd!Get(r, who)) /\ Cmd!Get(rec, stranger) = Cmd!Get(None, [who EXCEPT !.allowed = TRUE])
    /\ \A body \in MCStatusBodies :
         LET update(r, w) == Cmd!Update(body, w, r, {"active"} \X Cmd!Statuses) IN
         update(rec, stranger) = update(None, who)
    /\ \A body \in MCBodies : \A maximum \in {None, 60} :
         LET unknown == Cmd!Sign(body, maximum, who, None) IN
         /\ Cmd!Sign(body, maximum, stranger, rec) = unknown
         /\ Cmd!ReadSign(body, maximum) # None /\ Cmd!ReadSign(body, maximum).service # rec.service =>
              Cmd!Sign(body, maximum, who, rec) = unknown
    /\ \A body \in MCVerifyBodies : \A genuine \in BOOLEAN :
         LET unknown == Cmd!Verify(body, who, None, genuine)
             reply  == Cmd!Verify(body, who, rec, genuine) IN
         /\ Cmd!Verify(body, stranger, rec, genuine) = unknown
         /\ reply.status = 200 /\ reply.body.verified =>
              genuine /\ who.allowed /\ rec.status = "active" /\ rec.service = body.service_did
         /\ reply.status = 200 /\ ~reply.body.verified => reply = unknown
    /\ Cmd!DidDocument(rec) = Cmd!DidDocument(None) <=> rec.status # "active"

(* An owner is told what became of an identity, can move it where the      *)
(* policy lets it, and cannot have anything signed for a Service that is   *)
(* not there; no text stands for what is no text.                          *)
ASSUME OwnersAreTold ==
  LET owner == [key |-> "k", subject |-> "owner", allowed |-> TRUE]
      leaves == {p \in Cmd!Statuses \X Cmd!Statuses : p[1] \notin {"terminated", p[2]}}
      ask == [op |-> "enroll", jti |-> "j", service_did |-> "did:u"] IN
  /\ \A rec \in MCRecords :
       LET left == [rec EXCEPT !.service = "did:u"] IN
       /\ Cmd!Sign(ask, None, owner, left).status = IF rec.status = "active" THEN 400 ELSE 403
       /\ Cmd!Sign(ask, None, owner, left).code =
            CASE rec.status = "active" -> "invalid_request" [] rec.status = "terminated" -> "identity_terminated"
              [] OTHER -> "identity_suspended"
       /\ \A body \in MCStatusBodies :
            LET reply == Cmd!Update(body, owner, rec, leaves)
                fits == body # None /\ Cmd!At(body, "status") \in Cmd!Statuses IN
            /\ reply.status = 400 <=> ~fits
            /\ reply.status = 200 <=> fits /\ <<rec.status, Cmd!At(body, "status")>> \in leaves
            /\ reply.status = 200 => reply.body = [rec EXCEPT !.status = body.status]
  /\ \A who \in MCWho : Cmd!List(<<>>, who) = IF who.allowed THEN Cmd!Ok(<<>>) ELSE Cmd!Get(None, who)
  /\ \A body \in MCBodies \ {None} : Cmd!ReadSign(body, None) # None =>
       {"", " "} \intersect {body[m] : m \in DOMAIN body} = {}
  /\ \A body \in MCVerifyBodies \ {None} : Cmd!ReadVerification(body) # None =>
       {"", " "} \intersect {body[m] : m \in DOMAIN body} = {}

(* A key and a principal are asked for in every command that is done once. *)
ASSUME CommandsNeedKeys ==
  \A who \in MCWho : \A rec \in MCRecords :
    {None, ""} \intersect {who.key, who.subject} # {} =>
      /\ \A body \in MCBodies : Cmd!Sign(body, None, who, rec).status \in {400, 404}
      /\ \A body \in MCBodies : Cmd!Provision(body, who, rec, rec).status \in {400, 404}
      /\ \A body \in MCVerifyBodies :
           LET reply == Cmd!Verify(body, who, rec, TRUE) IN reply.status = 400 \/ ~reply.body.verified

(* The Agent keeps one of its identities that signs where there is one;    *)
(* where there is none but one that does not, the Platform may hand that   *)
(* one out again, and what it is given is kept all the same.               *)
MCPages == UNION {[1..n -> {r \in MCRecords : r.service = "did:s"}] : n \in 0..2}
ASSUME IdentitiesAreFound ==
  \A page \in MCPages : \A existing \in {None} \union {page[i] : i \in DOMAIN page} :
    LET new    == [did |-> "did:b", id |-> "pai_2", service |-> "did:s",
                 algorithms |-> <<"EdDSA">>, status |-> "active"]
        owner  == [key |-> "k", subject |-> "owner", allowed |-> TRUE]
        reply == Cmd!Provision(Cmd!ProvisionRequest("k", "did:s"), owner, existing, [new EXCEPT !.service = ""])
        keeps   == Cmd!GotOrCreated(page, reply)
        found  == Cmd!SignerFor(keeps) IN
    /\ keeps.serviceDid = "did:s" /\ found # None
    /\ found \in {page[i] : i \in DOMAIN page} \union {new}
    /\ found.status # "active" <=>
         existing # None /\ \A i \in DOMAIN page : page[i].status # "active"
    /\ found = new => \A i \in DOMAIN page : page[i].status # "active"
ASSUME ServicesAreDids ==
  \A service \in {"did:s", "did:u", "t", "", " "} :
    Cmd!Provision([service_did |-> service], [key |-> "k", subject |-> "owner", allowed |-> TRUE], None,
                  [service |-> ""]).status = IF service = "did:s" THEN 200 ELSE 400

(* An identity that was kept gets the signer of the identity it was made   *)
(* of; one that is not whole, or is not the Platform's, gets none.         *)
ASSUME KeptIdentitiesSign ==
  \A rec \in MCRecords :
    LET keeps == Cmd!AgentIdentity(rec) IN
    /\ Cmd!ReadIdentity(rec) = rec /\ Cmd!SignerFor(keeps) = rec
    /\ \A m \in {"did", "id", "service", "status"} : Cmd!ReadIdentity([rec EXCEPT ![m] = ""]) = None
    /\ Cmd!ReadIdentity([rec EXCEPT !.status = "gone"]) = None
    /\ \A m \in {"id", "status"} :
         Cmd!SignerFor([keeps EXCEPT !.metadata = [n \in {"id", "status"} \ {m} |-> @[n]]]) = None
    /\ Cmd!SignerFor([keeps EXCEPT !.metadata["status"] = "gone"]) = None
    /\ Cmd!SignerFor([keeps EXCEPT !.kind = "sovereign"]) = None

(* What a caller supplies to authenticate with does not touch the fields   *)
(* of the command; an Authorization of another spelling joins the first.   *)
MCNames == {"Accept", "ACCEPT", "Idempotency-Key", "idempotency-key", "Authorization", "authorization", "X"}
ASSUME CommandFieldsStand ==
  \A names \in SUBSET MCNames : \A authorization \in {None, "AEP a"} :
    LET own  == [n \in {"Accept", "Idempotency-Key"} |-> <<"own", n>>]
        sent == Cmd!Headers(authorization, [n \in names |-> <<"supplied", n>>], own) IN
    /\ {n \in DOMAIN sent : MCLowerName(n) \in Cmd!Reserved} = DOMAIN own
    /\ \A n \in DOMAIN own : sent[n] = own[n]
    /\ \A n \in names : MCLowerName(n) \notin Cmd!Reserved => sent[n] = <<"supplied", n>>
    /\ authorization # None /\ "Authorization" \notin names => sent["Authorization"] = authorization

(* A path with one place for the identity leads to it; another place stays.*)
ASSUME PathsNameTheIdentity ==
  /\ Cmd!EndpointPath(<<"identities", "{agent_identity_id}", "sign">>, "pai_1") =
       <<"identities", <<"id", "pai_1">>, "sign">>
  /\ Cmd!EndpointPath(<<"{agent_identity_id}", "{agent_identity_id}">>, "pai_1") =
       <<<<"id", "pai_1">>, "{agent_identity_id}">>
  /\ Cmd!EndpointPath(<<"sign">>, "pai_1") = <<"sign">>

(* A registry keeps one identity for each DID, the one that was put there  *)
(* last, and an update keeps what it does not name.                        *)
MCMembers == [account : {None, "x", "y"}, status : {"active", "suspended"}, metadata : {<<>>, [m |-> 1], [n |-> 2]}]
MCManaged == {Cmd!Created(did, members, 1) : did \in {"did:a", "did:b"}, members \in MCMembers}
ASSUME RegistriesKeepIdentities ==
  \A a, b \in MCManaged :
    LET registry == Cmd!Upsert(Cmd!Upsert(<<>>, a), b)
        filters == {<<>>, [account |-> "x"], [status |-> "active"], [account |-> "x", status |-> "active"]} IN
    /\ registry[b.did] = b /\ a.did \in DOMAIN registry
    /\ Cmd!Listed(registry, <<>>) = {b} \union (IF a.did = b.did THEN {} ELSE {a})
    /\ \A filter \in filters : \A m \in DOMAIN filter :
         Cmd!Listed(registry, filter) =
           {i \in Cmd!Listed(registry, [n \in DOMAIN filter \ {m} |-> filter[n]]) :
              i[m] = filter[m]}
    /\ Cmd!Listed(Cmd!Remove(registry, a.did), <<>>) = IF a.did = b.did THEN {} ELSE {b}
    /\ Cmd!SetStatus(registry, "did:c", "active", 2) = None
    /\ Cmd!SetStatus(registry, a.did, "revoked", 2)[a.did] = Cmd!Updated(registry[a.did], [status |-> "revoked"], 2)
ASSUME UpdatesAddUp ==
  \A a \in MCManaged : \A update \in {<<>>, [metadata |-> [m |-> 3]],
                                            [account |-> "z"], [status |-> "revoked", metadata |-> <<>>]} :
    LET b == Cmd!Updated(a, update, 2) IN
    /\ b.did = a.did /\ b.created = a.created /\ b.updated = 2
    /\ DOMAIN a.metadata \subseteq DOMAIN b.metadata
    /\ \A m \in DOMAIN update : IF m = "metadata"
         THEN \A n \in DOMAIN update.metadata : b.metadata[n] = update.metadata[n]
                                 ELSE b[m] = update[m]
    /\ \A m \in DOMAIN a \ (DOMAIN update \union {"updated"}) : b[m] = a[m]
    /\ Cmd!EnrollRequest(b, "k", None) # None <=> b.status = "active"
    /\ Cmd!EnrollRequest(b, "", None) = None
=============================================================================

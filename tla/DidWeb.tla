-------------------------------- MODULE DidWeb --------------------------------
(***************************************************************************)
(* The DID of an Agent that a Platform manages, from the Platform that     *)
(* makes it up and publishes its document (packages/platform/src/index.ts) *)
(* to the Service that finds the Agent's key there                         *)
(* (packages/core/src/did-web.ts).                                         *)
(*                                                                         *)
(* A did:web DID is the sequence of what stands between its colons, the    *)
(* host first; a URL is [scheme, parts], its parts being the host and what *)
(* stands between its slashes.  Both are sequences of escaped texts.  A    *)
(* prefix is the parts of a path that are not empty, and a template such a *)
(* sequence as a URL has, with Placeholder for "{agent_did_id}".  A        *)
(* kid, or the id of a verification method, is [did, fragment], fragment   *)
(* being None where there is none and did None where it is relative.       *)
(***************************************************************************)
EXTENDS Naturals, Sequences, SequencesExt

CONSTANTS
  None, Placeholder,
  Sample,         \* the id that a Platform tries its configuration with
  Encode,         \* encodeURIComponent, a function on texts
  Decode,         \* decodeURIComponent: None where it throws
  HostOf,         \* what a URL makes of the texts that are hosts
  LoopbackHosts,  \* some of the hosts of URLs
  Segments        \* the texts that may be segments of a path

-----------------------------------------------------------------------------
(* The Platform: createServiceScopedAgentDid, renderDidUrlTemplate (None   *)
(* where it throws), and the check of a configuration in createAepPlatform *)
(* against didWebDocumentUrl.                                              *)
AgentDid(host, prefix, id) ==
  <<Encode[host]>> \o [i \in DOMAIN prefix |-> Encode[prefix[i]]] \o <<Encode[id]>>

Rendered(template, id) ==
  IF ~Contains(template, Placeholder) THEN None
  ELSE [scheme |-> "https",
        parts |-> [i \in DOMAIN template |->
                     IF template[i] = Placeholder THEN Encode[id] ELSE template[i]]]

(* didWebDocumentUrl.  The segments stay escaped as they were.             *)
Path(did) == IF Len(did) = 1 THEN <<".well-known">> ELSE Tail(did)
DocumentUrl(did, loopback) ==
  IF \/ Decode[did[1]] \notin DOMAIN HostOf
     \/ \E i \in 2..Len(did) : Decode[did[i]] \notin Segments
  THEN None
  ELSE LET host == HostOf[Decode[did[1]]] IN
       [scheme |-> IF loopback /\ host \in LoopbackHosts THEN "http" ELSE "https",
        parts |-> <<host>> \o Path(did) \o <<"did.json">>]

Constructible(host, prefix, template) ==
  /\ Rendered(template, Sample) # None
  /\ Rendered(template, Sample) = DocumentUrl(AgentDid(host, prefix, Sample), FALSE)

-----------------------------------------------------------------------------
(* What the Platform publishes of an identity [did, status]: a method is   *)
(* [id, jwk, relationships], its id and jwk None where it has none.  None  *)
(* is what it answers instead of a document.                               *)
MethodId(did, method, index) ==
  IF method.id # None THEN method.id
  ELSE [did |-> did, fragment |-> IF index = 1 THEN None ELSE index]

Document(identity, methods) ==
  IF identity.status # "active" \/ methods = <<>> THEN None
  ELSE [id |-> identity.did,
        methods |-> [i \in DOMAIN methods |->
                       [id |-> MethodId(identity.did, methods[i], i), jwk |-> methods[i].jwk]],
        relationships |->
          [r \in UNION {methods[i].relationships : i \in DOMAIN methods} |->
             {MethodId(identity.did, methods[i], i) :
                i \in {j \in DOMAIN methods : r \in methods[j].relationships}}]]

(* resolveDidWebPublicKey, with what its fetch gives for the URL.          *)
Named(id, kid) ==
  \/ id = kid
  \/ kid.fragment # None /\ id = [did |-> None, fragment |-> kid.fragment]

Resolve(did, kid, loopback, web) ==
  LET url      == DocumentUrl(did, loopback)
      document == IF url \in DOMAIN web THEN web[url] ELSE None
      named    == {i \in DOMAIN document.methods :
                     Named(document.methods[i].id, kid) /\ document.methods[i].jwk # None}
  IN  IF kid.did # did \/ document = None \/ document.id # did \/ named = {} THEN None
      ELSE document.methods[CHOOSE i \in named : \A j \in named : i <= j].jwk
=============================================================================

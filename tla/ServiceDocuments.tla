--------------------------- MODULE ServiceDocuments ---------------------------
(***************************************************************************)
(* The Service Documents extension: what the core accepts as descriptors,  *)
(* declarations and portable documents (packages/core/src/                 *)
(* service-documents.ts) and how an Agent reads a document of a Service    *)
(* (packages/agent/src/service-documents.ts).                              *)
(*                                                                         *)
(* A text counts by its length, what is none by 0; a URL is [scheme, host, *)
(* user]; what is no list is <<>>.  What throws gives None.                *)
(***************************************************************************)
EXTENDS Naturals, FiniteSets, SequencesExt, TLC

CONSTANTS
  None,
  Ids, DocumentTypes, MediaTypes,  \* the texts that match ID, TYPE, MEDIA_TYPE
  Urls,                            \* texts that are URLs of at most 2048 plain characters
  LoopbackHosts,
  Parse(_),                        \* the JSON of a text
  MaxDocuments,                    \* 7
  MaxRepresentations,              \* 8
  MaxTitle,                        \* 256
  MaxText,                         \* 16384
  MaxBlocks,                       \* 1024
  MaxDepth,                        \* 8
  MaxItems,                        \* 128
  MaxRedirects,                    \* 5
  MaxBytes,                        \* 2^20
  MaxTimeout                       \* 2^31 - 1

Unique(list) == Cardinality(ToSet(list)) = Len(list)
Text(length, maximum) == length \in 1..maximum

(* documentUrl, and what download asks of a URL before it requests it.     *)
Reachable(url) ==
  /\ ~url.user
  /\ url.scheme = "https" \/ (url.scheme = "http" /\ url.host \in LoopbackHosts)
DocumentUrl(url) == url \in Urls /\ Reachable(url)

-----------------------------------------------------------------------------
(* validateAepDocumentIds: a declaration of an Enroll.                     *)
ValidIds(list) == Len(list) <= MaxDocuments /\ ToSet(list) \subseteq Ids /\ Unique(list)

(* validateAepServiceDocuments.                                            *)
ValidRepresentations(list) ==
  LET types == [i \in DOMAIN list |-> list[i].media] IN
  /\ Len(list) \in 1..MaxRepresentations
  /\ ToSet(types) \subseteq MediaTypes /\ Unique(types) /\ "text/html" \in ToSet(types)
  /\ \A i \in DOMAIN list : DocumentUrl(list[i].url)

ValidDescriptors(list) ==
  /\ Len(list) \in 1..MaxDocuments
  /\ Unique([i \in DOMAIN list |-> list[i].id])
  /\ \A i \in DOMAIN list :
       LET item == list[i] IN
       /\ item.id \in Ids /\ item.type \in DocumentTypes /\ Text(item.title, MaxTitle)
       /\ item.enrollment \in {"required", "not-required"}
       /\ ValidRepresentations(item.representations)

(* validateAepPortableDocument.  Lists of blocks are taken from a stack;   *)
(* what they hold together by depth is the same in every order.            *)
ListsAt(document) ==
  LET lists[depth \in 0..MaxDepth] ==
        IF depth = 0
        THEN <<document.content>> \o (IF document.summary = None THEN <<>> ELSE <<document.summary>>)
        ELSE LET above    == FlattenSeq(lists[depth - 1])
                 sections == SelectSeq(above, LAMBDA b : b.type = "section")
             IN  [i \in DOMAIN sections |-> sections[i].blocks]
  IN  lists

ValidBlock(block, depth) ==
  \/ block.type = "paragraph" /\ Text(block.text, MaxText)
  \/ block.type = "section" /\ Text(block.title, MaxTitle) /\ depth < MaxDepth
  \/ /\ block.type \in {"bulleted_list", "numbered_list"}
     /\ Len(block.items) \in 1..MaxItems
     /\ \A i \in DOMAIN block.items : Text(block.items[i], MaxText)

ValidDocument(document) ==
  LET lists  == ListsAt(document)
      blocks == [depth \in 0..MaxDepth |-> FlattenSeq(lists[depth])]
      count  == FoldLeft(LAMBDA sum, depth : sum + Len(blocks[depth - 1]), 0,
                         [i \in 1..(MaxDepth + 1) |-> i])
  IN  /\ document.format = <<"aep-service-document", "1.0">> /\ document.id \in Ids
      /\ count <= MaxBlocks
      /\ \A depth \in 0..MaxDepth :
           /\ \A i \in DOMAIN lists[depth] : lists[depth][i] # <<>>
           /\ \A i \in DOMAIN blocks[depth] : ValidBlock(blocks[depth][i], depth)

-----------------------------------------------------------------------------
(* download: the web answers a URL with [status, location, type, encoding, *)
(* bytes, text], or None where no answer comes before the deadline; a      *)
(* location is a URL or None, a text that is no UTF-8 is None.             *)
Download(web, url) ==
  LET answer == IF Reachable(url) THEN web[url] ELSE None IN
  IF answer = None THEN None
  ELSE IF answer.status \in {301, 302, 303, 307, 308}
       THEN IF answer.location = None THEN None ELSE [to |-> answer.location, text |-> ""]
       ELSE IF /\ answer.status \in 200..299 /\ answer.type = "application/json"
               /\ answer.encoding \in {None, "identity"}
               /\ answer.bytes <= MaxBytes /\ answer.text # None
            THEN [to |-> None, text |-> answer.text] ELSE None

(* readAepServiceDocument: the URLs that are requested one after another,  *)
Redirect(web, url) ==
  LET got == Download(web, url) IN
  CASE got = None -> None
    [] got # None /\ got.to # None /\ url.scheme = "https" /\ got.to.scheme # "https" -> None
    [] OTHER -> got.to
Requested(web, url) ==
  LET chain[n \in 0..MaxRedirects] ==
        IF n = 0 THEN <<url>>
        ELSE LET next == Redirect(web, Last(chain[n - 1])) IN
             IF Len(chain[n - 1]) < n \/ next = None THEN chain[n - 1] ELSE Append(chain[n - 1], next)
  IN  chain[MaxRedirects]

(* the document at the last of them, once its text is parsed,              *)
Fetched(web, url) ==
  LET got == Download(web, Last(Requested(web, url))) IN
  IF got = None \/ got.to # None THEN None ELSE Parse(got.text)

(* and the result: the document, if it is the one described, or where to   *)
(* read it in a browser; nothing is thrown but what the caller caused.     *)
UrlOf(descriptor, type) ==
  LET fits == {i \in DOMAIN descriptor.representations : descriptor.representations[i].media = type} IN
  IF fits = {} THEN None ELSE descriptor.representations[CHOOSE i \in fits : TRUE].url

Read(descriptor, web, timeout, aborted) ==
  LET portable == UrlOf(descriptor, "application/json")
      result   == [web |-> UrlOf(descriptor, "text/html"), document |-> None]
      document == IF aborted THEN None ELSE Fetched(web, portable)
  IN  CASE ~ValidDescriptors(<<descriptor>>) -> None
        [] ValidDescriptors(<<descriptor>>) /\ portable = None ->
             result @@ [reason |-> "not_advertised"]
        [] ValidDescriptors(<<descriptor>>) /\ portable # None /\ timeout \notin 1..MaxTimeout -> None
        [] OTHER ->
             IF document # None /\ ValidDocument(document) /\ document.id = descriptor.id
             THEN [result EXCEPT !.document = document] @@ [reason |-> None]
             ELSE IF aborted THEN None ELSE result @@ [reason |-> "unavailable_or_unsupported"]
=============================================================================

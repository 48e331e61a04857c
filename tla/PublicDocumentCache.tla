------------------------- MODULE PublicDocumentCache -------------------------
(***************************************************************************)
(* The Agent's cache of public documents: fetchAepPublicDocument           *)
(* (packages/agent/src/public-documents.ts) with its single flights, its   *)
(* conditional requests and the alias it keeps for a redirected URL,       *)
(* against a web on which documents change and move.                       *)
(*                                                                         *)
(* A document is its URL and version; its entity tag is the version:       *)
(* unique to its URL, as HTTP has it, and no further.  Media types, sizes  *)
(* and malformed documents end in Fail with every other error.  The        *)
(* documents are OpenAPI documents (openApiPolicy).  sameOriginRedirects,  *)
(* whose branch also deletes an entry found at another origin, is asked    *)
(* for by the readers of Inspect and of Platform documents only, which     *)
(* live in other namespaces of the cache, and is left out.                 *)
(***************************************************************************)
EXTENDS Naturals

CONSTANTS
  Readers, Urls, None,
  Ages,          \* lifetimes that a publisher gives; no-store is None
  MaxAge,        \* the longest of them
  Limit,         \* redirects followed by one fetch
  MaxTime, MaxChanges  \* bounds of the model: the clock, the web's changes

(* What the constants have to be.                                          *)
Bounds ==
  /\ MaxAge \in Nat \ {0} /\ Limit \in Nat /\ MaxTime \in Nat /\ MaxChanges \in Nat
  /\ Ages \subseteq (0..MaxAge) \union {None} /\ None \notin 0..MaxAge
  /\ None \notin Readers /\ None \notin Urls

VARIABLES
  clock,
  site,     \* site[u]: what the web has at u
  changes,  \* changes of the web so far
  cache,    \* cache[u]: a record, or None
  flight,   \* flight[<<u, revalidate>>]: the reader that fetches, or None
  ask,      \* ask[r]: the key of reader r's call
  at,       \* at[r]: where the call is
  frame,    \* frame[r]: the locals of a reader that fetches
  result    \* result[r]: the record it was given, or None

cacheVars == <<cache, flight, ask, at, frame, result>>
webVars == <<site, changes>>

Keys == Urls \X BOOLEAN
Versions == 1..(MaxChanges + 1)
Busy == {"looking", "asking", "storing", "aliasing"}

(* A record: the document with the URL it was really got from, the URL     *)
(* that the cache has for it, its lifetime and the time it was cached.     *)
(* History: when the web last had this document at that URL.               *)
Documents == [url : Urls, version : Versions]
Records == [doc : Documents, url : Urls, age : Ages, cachedAt : Nat, served : Nat]
Frames == [now : Nat, cached : Records \union {None}, current : Urls,
           hops : Nat, got : Records \union {None}]
Sites == [to : Urls \union {None}, version : Versions, age : Ages]

Init ==
  /\ clock = 0
  /\ site \in [Urls -> [to : {None}, version : {1}, age : Ages]]
  /\ changes = 0
  /\ cache = [u \in Urls |-> None]
  /\ flight = [k \in Keys |-> None]
  /\ ask = [r \in Readers |-> None]
  /\ at = [r \in Readers |-> "idle"]
  /\ frame = [r \in Readers |-> None]
  /\ result = [r \in Readers |-> None]

-----------------------------------------------------------------------------
Tick == clock < MaxTime /\ clock' = clock + 1 /\ UNCHANGED <<webVars, cacheVars>>

(* A publisher puts another document at u, or a redirect.                  *)
Publish(u, age) ==
  /\ changes < MaxChanges /\ changes' = changes + 1
  /\ site' = [site EXCEPT ![u] =
                [to |-> None, version |-> @.version + 1, age |-> age]]
  /\ UNCHANGED <<clock, cacheVars>>
Move(u, v) ==
  /\ changes < MaxChanges /\ changes' = changes + 1
  /\ site' = [site EXCEPT ![u].to = v]
  /\ UNCHANGED <<clock, cacheVars>>

-----------------------------------------------------------------------------
IsFresh(rec, time) == rec.age # None /\ rec.cachedAt + rec.age > time

Done(rs, rec) ==
  /\ at' = [r \in Readers |-> IF r \in rs THEN "done" ELSE at[r]]
  /\ result' = [r \in Readers |-> IF r \in rs THEN rec ELSE result[r]]
  /\ frame' = [r \in Readers |-> IF r \in rs THEN None ELSE frame[r]]

(* A call joins the flight with its URL and mode, or begins one, with a    *)
(* reading of the clock.                                                   *)
Read(r, u, revalidate) ==
  LET k == <<u, revalidate>> IN
  /\ at[r] = "idle"
  /\ ask' = [ask EXCEPT ![r] = k]
  /\ \/ /\ flight[k] # None
        /\ at' = [at EXCEPT ![r] = "joined"]
        /\ UNCHANGED <<flight, frame, result>>
     \/ /\ flight[k] = None
        /\ flight' = [flight EXCEPT ![k] = r]
        /\ at' = [at EXCEPT ![r] = "looking"]
        /\ frame' = [frame EXCEPT ![r] =
             [now |-> clock, cached |-> None, hops |-> 0, got |-> None, current |-> u]]
        /\ UNCHANGED result
  /\ UNCHANGED <<clock, webVars, cache>>

(* The flight of r settles for r and for everyone who joined it.           *)
Together(r) == {r} \union {q \in Readers : at[q] = "joined" /\ ask[q] = ask[r]}
Settle(r, rec) ==
  /\ flight' = [flight EXCEPT ![ask[r]] = None]
  /\ Done(Together(r), rec)

(* The cache has been awaited.  What it holds is the answer if it was      *)
(* fresh when the flight began and need not be revalidated; otherwise the  *)
(* flight fetches, from where the cached document was found.               *)
Look(r) ==
  LET u == ask[r][1]
      rec == cache[u]
      fresh == ~ask[r][2] /\ rec # None /\ IsFresh(rec, frame[r].now) IN
  /\ at[r] = "looking"
  /\ \/ fresh /\ Settle(r, rec)
     \/ /\ ~fresh
        /\ at' = [at EXCEPT ![r] = "asking"]
        /\ frame' = [frame EXCEPT ![r].cached = rec,
                                  ![r].current = IF rec = None THEN u ELSE rec.url]
        /\ UNCHANGED <<flight, result>>
  /\ UNCHANGED <<clock, webVars, cache, ask>>

(* What becomes of the answer from URL u: the cached document, confirmed   *)
(* by its entity tag, or the one received.                                 *)
ReceivedMutant(r, u) ==
  LET s == site[u]
      cached == frame[r].cached
      here == [url |-> u, version |-> s.version] IN
  IF cached # None /\ cached.doc.version = s.version
    THEN [cached EXCEPT !.age = s.age, !.cachedAt = frame[r].now,
                        !.served = IF cached.doc = here THEN clock ELSE @]
    ELSE [doc |-> here, url |-> u, age |-> s.age, cachedAt |-> frame[r].now, served |-> clock]
Received(r, u) ==
  LET s == site[u]
      cached == frame[r].cached
      here == [url |-> u, version |-> s.version] IN
  IF cached # None /\ cached.doc.version = s.version
    THEN [cached EXCEPT !.url = u, !.age = s.age, !.cachedAt = frame[r].now,
                        !.served = IF cached.doc = here THEN clock ELSE @]
    ELSE [doc |-> here, url |-> u, age |-> s.age, cachedAt |-> frame[r].now, served |-> clock]

(* One request of the fetch and its answer: a redirect is followed up to   *)
(* the limit; anything else is kept by the fetch until it is stored.       *)
Follow(r, u) ==
  IF frame[r].hops < Limit
    THEN /\ frame' = [frame EXCEPT ![r].current = site[u].to, ![r].hops = @ + 1]
         /\ UNCHANGED <<cache, flight, at, result>>
    ELSE Settle(r, None) /\ UNCHANGED cache
Ask(r) ==
  LET u == frame[r].current IN
  /\ at[r] = "asking"
  /\ \/ site[u].to # None /\ Follow(r, u)
     \/ /\ site[u].to = None
        /\ frame' = [frame EXCEPT ![r].got = Received(r, u)]
        /\ at' = [at EXCEPT ![r] = "storing"]
        /\ UNCHANGED <<cache, flight, result>>
  /\ UNCHANGED <<clock, webVars, ask>>

(* persist: the record under its own URL, then under the requested one; a  *)
(* no-store document is deleted from the requested URL, then from its own. *)
Store(r) ==
  LET got == frame[r].got
      u == ask[r][1] IN
  /\ at[r] = "storing"
  /\ cache' = IF got.age = None THEN [cache EXCEPT ![u] = None]
              ELSE [cache EXCEPT ![got.url] = got]
  /\ IF got.url = u THEN Settle(r, got)
     ELSE at' = [at EXCEPT ![r] = "aliasing"] /\ UNCHANGED <<flight, frame, result>>
  /\ UNCHANGED <<clock, webVars, ask>>
Alias(r) ==
  LET got == frame[r].got
      u == ask[r][1] IN
  /\ at[r] = "aliasing"
  /\ cache' = IF got.age = None THEN [cache EXCEPT ![got.url] = None]
              ELSE [cache EXCEPT ![u] = got]
  /\ Settle(r, got)
  /\ UNCHANGED <<clock, webVars, ask>>

(* The network, the document or the cache fails, or time is up.            *)
Fail(r) ==
  /\ at[r] \in Busy
  /\ Settle(r, None)
  /\ UNCHANGED <<clock, webVars, cache, ask>>

(* The caller has its answer.                                              *)
Release(r) ==
  /\ at[r] = "done"
  /\ at' = [at EXCEPT ![r] = "idle"]
  /\ ask' = [ask EXCEPT ![r] = None]
  /\ result' = [result EXCEPT ![r] = None]
  /\ UNCHANGED <<clock, webVars, cache, flight, frame>>

Work(r) == Look(r) \/ Ask(r) \/ Store(r) \/ Alias(r) \/ Fail(r)
Web ==
  \/ Tick
  \/ \E u \in Urls : \/ \E age \in Ages : Publish(u, age)
                     \/ \E v \in Urls : Move(u, v)
Next ==
  \/ Web
  \/ \E r \in Readers : Work(r) \/ Release(r)
                          \/ \E u \in Urls, revalidate \in BOOLEAN : Read(r, u, revalidate)

vars == <<clock, webVars, cacheVars>>
Spec == Init /\ [][Next]_vars

-----------------------------------------------------------------------------
TypeOK ==
  /\ clock \in 0..MaxTime /\ changes \in 0..MaxChanges
  /\ site \in [Urls -> Sites]
  /\ cache \in [Urls -> Records \union {None}]
  /\ flight \in [Keys -> Readers \union {None}]
  /\ ask \in [Readers -> Keys \union {None}]
  /\ at \in [Readers -> Busy \union {"idle", "joined", "done"}]
  /\ frame \in [Readers -> Frames \union {None}]
  /\ result \in [Readers -> Records \union {None}]

(* What the cache holds, and what a fetch is about to store in it, was on  *)
(* the web no earlier than its cachedAt says, however flights overtake     *)
(* each other, unless another URL's entity tag happened to match (then     *)
(* the record's URL is not the document's).                                *)
Honest(rec) == rec.doc.url = rec.url => rec.served >= rec.cachedAt
AgeIsHonest ==
  /\ \A u \in Urls : cache[u] # None => Honest(cache[u])
  /\ \A r \in Readers : frame[r] # None /\ frame[r].got # None => Honest(frame[r].got)
=============================================================================

------------------------ MODULE ProtectedResource_proofs ------------------------
(***************************************************************************)
(* Proofs about ProtectedResource and the cache of public documents that   *)
(* it reads, for every number of fetches, other readers, origins, methods, *)
(* redirects and lifetimes, and every change of the web.  First the cache: *)
(* its inductive invariant says that flights are held by readers at work,  *)
(* that what a fetch is about to store carries the clock reading of its    *)
(* beginning, and that versions count changes.                             *)
(***************************************************************************)
EXTENDS ProtectedResource, TLAPS

Storing == {"storing", "aliasing"}

(* A flight belongs to a reader at work on its key, and each reader at     *)
(* work has its flight; who joined one is not left without it.             *)
FlightsHeld ==
  /\ \A k \in Docs!Keys : flight[k] # None => at[flight[k]] \in Docs!Busy /\ ask[flight[k]] = k
  /\ \A r \in Readers :
       /\ at[r] \in Docs!Busy =>
            ask[r] \in Docs!Keys /\ frame[r] \in Docs!Frames /\ flight[ask[r]] = r
       /\ at[r] = "joined" => ask[r] \in Docs!Keys /\ flight[ask[r]] # None

(* What is about to be stored is dated from the beginning of its fetch,    *)
(* and honestly.                                                           *)
DatedFromStart ==
  \A r \in Readers :
    /\ at[r] \in Docs!Busy => frame[r].now <= clock
    /\ at[r] \in Storing => /\ frame[r].got \in Docs!Records
                            /\ frame[r].got.cachedAt = frame[r].now
                            /\ Docs!Honest(frame[r].got)

VersionsCount == \A u \in Origins : site[u].version <= changes + 1

(* The frame of a reader that is not at work is empty.                     *)
FramesOnlyAtWork ==
  \A r \in Readers : /\ at[r] \notin Docs!Busy => frame[r] = None
                     /\ at[r] \in {"looking", "asking"} => frame[r].got = None

HonestCache == \A u \in Origins : cache[u] # None => Docs!Honest(cache[u])

CacheInv ==
  Docs!TypeOK /\ FlightsHeld /\ DatedFromStart /\ VersionsCount /\ FramesOnlyAtWork /\ HonestCache

(* AgeIsHonest follows from the invariant.                                 *)
LEMMA InvIsHonest == CacheInv => Docs!AgeIsHonest
  BY DEF CacheInv, Docs!AgeIsHonest, HonestCache, DatedFromStart, FramesOnlyAtWork, Docs!TypeOK,
         Docs!Busy, Storing

(* Initially nothing is cached and nobody reads.                           *)
LEMMA InitHolds == Docs!Bounds /\ Docs!Init => CacheInv
<1> SUFFICES ASSUME Docs!Bounds, Docs!Init PROVE CacheInv
  OBVIOUS
<1>1. Docs!TypeOK
  BY DEF Docs!Init, Docs!Bounds, Docs!TypeOK, Docs!Sites, Docs!Versions, Docs!Busy
<1>2. FlightsHeld
  BY DEF Docs!Init, FlightsHeld, Docs!Busy
<1>3. DatedFromStart /\ FramesOnlyAtWork
  BY DEF Docs!Init, DatedFromStart, FramesOnlyAtWork, Docs!Busy, Storing
<1>4. VersionsCount
  BY DEF Docs!Init, VersionsCount
<1>5. HonestCache
  BY DEF Docs!Init, HonestCache
<1> QED
  BY <1>1, <1>2, <1>3, <1>4, <1>5 DEF CacheInv

(* What a flight leaves when it settles.                                   *)
LEMMA SettleFacts ==
  ASSUME CacheInv, Docs!Bounds, NEW r \in Readers, at[r] \in Docs!Busy,
         NEW rec \in Docs!Records \union {None}, Docs!Settle(r, rec), ask' = ask
  PROVE  /\ flight' \in [Docs!Keys -> Readers \union {None}]
         /\ at' \in [Readers -> Docs!Busy \union {"idle", "joined", "done"}]
         /\ frame' \in [Readers -> Docs!Frames \union {None}]
         /\ result' \in [Readers -> Docs!Records \union {None}]
         /\ FlightsHeld' /\ FramesOnlyAtWork'
         /\ \A q \in Readers : at'[q] \in Docs!Busy => at'[q] = at[q] /\ frame'[q] = frame[q]
<1> DEFINE T == Docs!Together(r)
<1>1. /\ flight' = [flight EXCEPT ![ask[r]] = None]
      /\ at' = [q \in Readers |-> IF q \in T THEN "done" ELSE at[q]]
      /\ result' = [q \in Readers |-> IF q \in T THEN rec ELSE result[q]]
      /\ frame' = [q \in Readers |-> IF q \in T THEN None ELSE frame[q]]
  BY DEF Docs!Settle, Docs!Done
<1>2. ask[r] \in Docs!Keys /\ flight[ask[r]] = r /\ r \in T
  BY DEF CacheInv, FlightsHeld, Docs!Together
<1>3. \A q \in Readers : q \in T <=> q = r \/ (at[q] = "joined" /\ ask[q] = ask[r])
  BY DEF Docs!Together
<1>4. /\ flight' \in [Docs!Keys -> Readers \union {None}]
      /\ at' \in [Readers -> Docs!Busy \union {"idle", "joined", "done"}]
      /\ frame' \in [Readers -> Docs!Frames \union {None}]
      /\ result' \in [Readers -> Docs!Records \union {None}]
  BY <1>1, <1>2 DEF CacheInv, Docs!TypeOK
<1>5. \A q \in Readers : at'[q] \in Docs!Busy => /\ q \notin T
                                            /\ at'[q] = at[q] /\ frame'[q] = frame[q]
  BY <1>1 DEF Docs!Busy
<1>6. FlightsHeld'
  <2>1. ASSUME NEW k \in Docs!Keys, flight'[k] # None
        PROVE  at'[flight'[k]] \in Docs!Busy /\ ask'[flight'[k]] = k
    <3>1. k # ask[r] /\ flight'[k] = flight[k]
      BY <1>1, <1>2, <2>1 DEF CacheInv, Docs!TypeOK
    <3>2. at[flight[k]] \in Docs!Busy /\ ask[flight[k]] = k /\ flight[k] \in Readers
      BY <2>1, <3>1 DEF CacheInv, FlightsHeld, Docs!TypeOK
    <3>3. flight[k] \notin T
      BY <3>1, <3>2, <1>3 DEF Docs!Busy
    <3> QED
      BY <1>1, <3>1, <3>2, <3>3
  <2>2. ASSUME NEW q \in Readers, at'[q] \in Docs!Busy
        PROVE  ask'[q] \in Docs!Keys /\ frame'[q] \in Docs!Frames /\ flight'[ask'[q]] = q
    <3>1. q # r /\ at[q] \in Docs!Busy /\ frame'[q] = frame[q]
      BY <1>5, <1>2, <2>2
    <3>2. ask[q] \in Docs!Keys /\ frame[q] \in Docs!Frames /\ flight[ask[q]] = q
      BY <3>1 DEF CacheInv, FlightsHeld
    <3> QED
      BY <1>1, <1>2, <3>1, <3>2 DEF CacheInv, Docs!TypeOK
  <2>3. ASSUME NEW q \in Readers, at'[q] = "joined"
        PROVE  ask'[q] \in Docs!Keys /\ flight'[ask'[q]] # None
    <3>1. q \notin T /\ at[q] = "joined"
      BY <1>1, <2>3
    <3>2. ask[q] # ask[r] /\ ask[q] \in Docs!Keys /\ flight[ask[q]] # None
      BY <3>1, <1>3 DEF CacheInv, FlightsHeld
    <3> QED
      BY <1>1, <3>2 DEF CacheInv, Docs!TypeOK
  <2> QED
    BY <2>1, <2>2, <2>3 DEF FlightsHeld
<1>7. FramesOnlyAtWork'
  BY <1>1, <1>5 DEF CacheInv, FramesOnlyAtWork, Docs!Busy
<1> QED
  BY <1>4, <1>5, <1>6, <1>7

(* The web and the clock: nobody's frame changes, versions grow.           *)
LEMMA WebKeeps == ASSUME CacheInv, Docs!Bounds, Docs!Web PROVE CacheInv'
<1> USE DEF CacheInv
<1>1. CASE Docs!Tick
  <2>1. clock \in 0..MaxTime /\ MaxTime \in Nat /\ clock' = clock + 1 /\ clock' \in 0..MaxTime
    BY <1>1 DEF Docs!Tick, Docs!TypeOK, Docs!Bounds
  <2>2. UNCHANGED <<site, changes, cache, flight, ask, at, frame, result>>
    BY <1>1 DEF Docs!Tick, Docs!webVars, Docs!cacheVars
  <2>3. Docs!TypeOK' /\ VersionsCount' /\ HonestCache' /\ FlightsHeld' /\ FramesOnlyAtWork'
    BY <2>1, <2>2 DEF Docs!TypeOK, VersionsCount, HonestCache, FlightsHeld, FramesOnlyAtWork
  <2>4. \A r \in Readers : at[r] \in Docs!Busy => frame[r].now \in Nat
    BY DEF FlightsHeld, Docs!Frames
  <2>5. DatedFromStart'
    BY <2>1, <2>2, <2>4 DEF DatedFromStart
  <2> QED
    BY <2>3, <2>5
<1>2. ASSUME NEW u \in Origins, NEW s \in Docs!Sites, s.version <= changes + 2,
             changes < MaxChanges, changes' = changes + 1,
             site' = [site EXCEPT ![u] = s], UNCHANGED <<clock, Docs!cacheVars>>
      PROVE  CacheInv'
  <2>1. UNCHANGED <<clock, cache, flight, ask, at, frame, result>>
    BY <1>2 DEF Docs!cacheVars
  <2>2. changes' \in 0..MaxChanges /\ changes \in Nat
    BY <1>2 DEF Docs!TypeOK, Docs!Bounds
  <2>3. Docs!TypeOK'
    BY <1>2, <2>1, <2>2 DEF Docs!TypeOK
  <2>4. \A v \in Origins : site[v].version \in Nat
    BY DEF Docs!TypeOK, Docs!Sites, Docs!Versions
  <2>5. VersionsCount'
    BY <1>2, <2>2, <2>4 DEF VersionsCount, Docs!TypeOK
  <2>6. HonestCache' /\ FlightsHeld' /\ FramesOnlyAtWork' /\ DatedFromStart'
    BY <2>1 DEF HonestCache, FlightsHeld, FramesOnlyAtWork, DatedFromStart
  <2> QED
    BY <2>3, <2>5, <2>6
<1>3. ASSUME NEW u \in Origins, NEW age \in Ages, Docs!Publish(u, age) PROVE CacheInv'
  <2> DEFINE s == [to |-> None, version |-> site[u].version + 1, age |-> age]
  <2>1. site[u] \in Docs!Sites /\ site[u].version \in 1..(MaxChanges + 1)
        /\ site[u].version <= changes + 1 /\ changes \in Nat /\ MaxChanges \in Nat
    BY DEF Docs!TypeOK, Docs!Sites, Docs!Versions, VersionsCount, Docs!Bounds
  <2>2. changes < MaxChanges
    BY <1>3 DEF Docs!Publish
  <2>3. site[u].version + 1 \in Docs!Versions /\ site[u].version + 1 <= changes + 2
    BY <2>1, <2>2 DEF Docs!Versions
  <2>4. s \in Docs!Sites
    BY <2>3 DEF Docs!Sites
  <2>5. site' = [site EXCEPT ![u] = s]
    BY <1>3 DEF Docs!Publish
  <2> QED
    BY <1>2, <1>3, <2>2, <2>3, <2>4, <2>5 DEF Docs!Publish
<1>4. ASSUME NEW u \in Origins, NEW v \in Origins, Docs!Move(u, v) PROVE CacheInv'
  <2> DEFINE s == [site[u] EXCEPT !.to = v]
  <2>1. site[u] \in Docs!Sites /\ site[u].version <= changes + 1 /\ changes \in Nat
        /\ site[u].version \in Nat
    BY DEF Docs!TypeOK, Docs!Sites, Docs!Versions, VersionsCount
  <2>2. s \in Docs!Sites /\ s.version <= changes + 2
    BY <2>1 DEF Docs!Sites
  <2>3. site' = [site EXCEPT ![u] = s]
    BY <1>4, <2>1 DEF Docs!Move
  <2> QED
    BY <1>2, <1>4, <2>2, <2>3 DEF Docs!Move
<1> QED
  BY <1>1, <1>3, <1>4 DEF Docs!Web

(* Any call begins: it joins a flight or begins one.                       *)
LEMMA ReadKeeps ==
  ASSUME CacheInv, Docs!Bounds, NEW r \in Readers, NEW u \in Origins, NEW revalidate \in BOOLEAN,
         Docs!Read(r, u, revalidate)
  PROVE  CacheInv'
<1> DEFINE k == <<u, revalidate>>
<1> USE DEF CacheInv
<1>1. /\ at[r] = "idle" /\ ask' = [ask EXCEPT ![r] = k] /\ k \in Docs!Keys
      /\ UNCHANGED <<clock, site, changes, cache>>
  BY DEF Docs!Read, Docs!webVars, Docs!Keys
<1>2. ask' \in [Readers -> Docs!Keys \union {None}] /\ HonestCache' /\ VersionsCount'
  BY <1>1 DEF Docs!TypeOK, HonestCache, VersionsCount
<1>3. CASE /\ flight[k] # None /\ at' = [at EXCEPT ![r] = "joined"]
           /\ UNCHANGED <<flight, frame, result>>
  <2>1. Docs!TypeOK'
    BY <1>1, <1>2, <1>3 DEF Docs!TypeOK, Docs!Busy
  <2>2. \A q \in Readers : at'[q] \in Docs!Busy => q # r /\ at[q] \in Docs!Busy
    BY <1>3 DEF Docs!TypeOK, Docs!Busy
  <2>3. FlightsHeld'
    BY <1>1, <1>3, <2>2 DEF FlightsHeld, Docs!TypeOK, Docs!Busy
  <2>4. DatedFromStart' /\ FramesOnlyAtWork'
    BY <1>1, <1>3, <2>2 DEF DatedFromStart, FramesOnlyAtWork, Docs!TypeOK, Docs!Busy, Storing
  <2> QED
    BY <1>2, <2>1, <2>3, <2>4
<1>4. CASE /\ flight[k] = None /\ flight' = [flight EXCEPT ![k] = r]
           /\ at' = [at EXCEPT ![r] = "looking"]
           /\ frame' = [frame EXCEPT ![r] =
                [now |-> clock, cached |-> None, hops |-> 0, got |-> None, current |-> u]]
           /\ UNCHANGED result
  <2> DEFINE fr == [now |-> clock, cached |-> None, hops |-> 0, got |-> None, current |-> u]
  <2>1. clock \in Nat
    BY DEF Docs!TypeOK, Docs!Bounds
  <2>3. fr \in Docs!Frames
    BY <2>1 DEF Docs!Frames
  <2>4. Docs!TypeOK'
    BY <1>1, <1>2, <1>4, <2>3 DEF Docs!TypeOK, Docs!Busy
  <2>5. \A q \in Readers \ {r} : at'[q] = at[q] /\ frame'[q] = frame[q] /\ ask'[q] = ask[q]
    BY <1>1, <1>4 DEF Docs!TypeOK
  <2>6. at'[r] = "looking" /\ frame'[r] = fr /\ ask'[r] = k /\ flight'[k] = r
    BY <1>1, <1>4 DEF Docs!TypeOK
  <2>7. FlightsHeld'
    <3>1. ASSUME NEW j \in Docs!Keys, flight'[j] # None
          PROVE  at'[flight'[j]] \in Docs!Busy /\ ask'[flight'[j]] = j
      <4>1. CASE j = k
        BY <2>6, <4>1 DEF Docs!Busy
      <4>2. CASE j # k
        <5>1. flight'[j] = flight[j]
          BY <1>4, <4>2 DEF Docs!TypeOK
        <5>2. flight[j] \in Readers /\ at[flight[j]] \in Docs!Busy /\ ask[flight[j]] = j
          BY <3>1, <5>1 DEF FlightsHeld, Docs!TypeOK
        <5> QED
          BY <1>1, <2>5, <5>1, <5>2 DEF Docs!Busy
      <4> QED
        BY <4>1, <4>2
    <3>2. ASSUME NEW q \in Readers, at'[q] \in Docs!Busy
          PROVE  ask'[q] \in Docs!Keys /\ frame'[q] \in Docs!Frames /\ flight'[ask'[q]] = q
      <4>1. CASE q = r
        BY <1>1, <2>3, <2>6, <4>1
      <4>2. CASE q # r
        <5>1. ask[q] \in Docs!Keys /\ frame[q] \in Docs!Frames /\ flight[ask[q]] = q
          BY <2>5, <3>2, <4>2 DEF FlightsHeld
        <5>2. ask[q] # k
          BY <1>4, <5>1 DEF Docs!Bounds
        <5> QED
          BY <1>4, <2>5, <4>2, <5>1, <5>2 DEF Docs!TypeOK
      <4> QED
        BY <4>1, <4>2
    <3>3. ASSUME NEW q \in Readers, at'[q] = "joined"
          PROVE  ask'[q] \in Docs!Keys /\ flight'[ask'[q]] # None
      <4>1. q # r /\ ask[q] \in Docs!Keys /\ flight[ask[q]] # None /\ ask'[q] = ask[q]
        BY <2>5, <2>6, <3>3 DEF FlightsHeld
      <4> QED
        BY <1>4, <4>1 DEF Docs!TypeOK, Docs!Bounds
    <3> QED
      BY <3>1, <3>2, <3>3 DEF FlightsHeld
  <2>8. DatedFromStart' /\ FramesOnlyAtWork'
    BY <1>1, <2>1, <2>5, <2>6 DEF DatedFromStart, FramesOnlyAtWork, Docs!Busy, Storing
  <2> QED
    BY <1>2, <2>4, <2>7, <2>8
<1> QED
  BY <1>3, <1>4 DEF Docs!Read

(* When a flight settles, all that is left to show is about the cache.     *)
LEMMA SettleKeeps ==
  ASSUME CacheInv, Docs!Bounds, NEW r \in Readers, at[r] \in Docs!Busy,
         NEW rec \in Docs!Records \union {None}, Docs!Settle(r, rec),
         UNCHANGED <<clock, Docs!webVars, ask>>,
         cache' \in [Origins -> Docs!Records \union {None}], HonestCache'
  PROVE  CacheInv'
<1>1. /\ flight' \in [Docs!Keys -> Readers \union {None}]
      /\ at' \in [Readers -> Docs!Busy \union {"idle", "joined", "done"}]
      /\ frame' \in [Readers -> Docs!Frames \union {None}]
      /\ result' \in [Readers -> Docs!Records \union {None}]
      /\ FlightsHeld' /\ FramesOnlyAtWork'
      /\ \A q \in Readers : at'[q] \in Docs!Busy => at'[q] = at[q] /\ frame'[q] = frame[q]
  BY SettleFacts
<1>2. Docs!TypeOK'
  BY <1>1 DEF CacheInv, Docs!TypeOK, Docs!webVars
<1>3. DatedFromStart'
  BY <1>1 DEF CacheInv, DatedFromStart, Storing, Docs!Busy
<1>4. VersionsCount'
  BY DEF CacheInv, VersionsCount, Docs!webVars
<1> QED
  BY <1>1, <1>2, <1>3, <1>4 DEF CacheInv

(* A reader at work goes on to its next step, with another frame.          *)
LEMMA WorkKeeps ==
  ASSUME CacheInv, Docs!Bounds, NEW r \in Readers, at[r] \in Docs!Busy,
         NEW s \in Docs!Busy, NEW fr \in Docs!Frames,
         at' = [at EXCEPT ![r] = s], frame' = [frame EXCEPT ![r] = fr],
         UNCHANGED <<clock, Docs!webVars, flight, ask, result>>,
         fr.now = frame[r].now, s \in {"looking", "asking"} => fr.got = None,
         s \in Storing => /\ fr.got \in Docs!Records /\ fr.got.cachedAt = fr.now
                          /\ Docs!Honest(fr.got),
         cache' \in [Origins -> Docs!Records \union {None}], HonestCache'
  PROVE  CacheInv'
<1> USE DEF CacheInv
<1>1. Docs!TypeOK'
  BY DEF Docs!TypeOK, Docs!webVars
<1>2. \A q \in Readers \ {r} : at'[q] = at[q] /\ frame'[q] = frame[q]
  BY DEF Docs!TypeOK
<1>3. at'[r] = s /\ frame'[r] = fr
  BY DEF Docs!TypeOK
<1>4. FlightsHeld'
  <2>1. \A q \in Readers : at'[q] \in Docs!Busy <=> at[q] \in Docs!Busy
    BY <1>2, <1>3
  <2>2. \A q \in Readers : at'[q] = "joined" => at[q] = "joined"
    BY <1>2, <1>3 DEF Docs!Busy
  <2>3. \A q \in Readers : at'[q] \in Docs!Busy => frame'[q] \in Docs!Frames
    BY <1>2, <1>3, <2>1 DEF FlightsHeld
  <2> QED
    BY <2>1, <2>2, <2>3 DEF FlightsHeld, Docs!TypeOK
<1>5. DatedFromStart'
  BY <1>2, <1>3 DEF DatedFromStart
<1>6. FramesOnlyAtWork' /\ VersionsCount'
  BY <1>2, <1>3 DEF FramesOnlyAtWork, VersionsCount, Docs!webVars
<1> QED
  BY <1>1, <1>4, <1>5, <1>6

(* What comes back is a record dated from the beginning of the fetch, and  *)
(* was on the web no earlier.                                              *)
LEMMA ReceivedIsHonest ==
  ASSUME CacheInv, Docs!Bounds, NEW r \in Readers, at[r] = "asking", NEW u \in Origins
  PROVE  LET got == Docs!Received(r, u) IN
         got \in Docs!Records /\ got.cachedAt = frame[r].now /\ Docs!Honest(got)
<1> DEFINE s == site[u]
<1> DEFINE cached == frame[r].cached
<1> DEFINE here == [url |-> u, version |-> s.version]
<1> DEFINE new == [doc |-> here, url |-> u, age |-> s.age,
                   cachedAt |-> frame[r].now, served |-> clock]
<1> DEFINE old == [cached EXCEPT !.url = u, !.age = s.age, !.cachedAt = frame[r].now,
                                 !.served = IF cached.doc = here THEN clock ELSE @]
<1>1. /\ frame[r] \in Docs!Frames /\ frame[r].now \in Nat /\ frame[r].now <= clock
      /\ clock \in Nat /\ cached \in Docs!Records \union {None}
  BY DEF CacheInv, FlightsHeld, DatedFromStart, Docs!Frames, Docs!TypeOK, Docs!Bounds, Docs!Busy
<1>2. s \in Docs!Sites /\ here \in Docs!Documents /\ s.age \in Ages
  BY DEF CacheInv, Docs!TypeOK, Docs!Sites, Docs!Documents
<1>3. Docs!Received(r, u) =
        IF cached # None /\ cached.doc.version = s.version THEN old ELSE new
  BY DEF Docs!Received
<1>4. new \in Docs!Records /\ new.cachedAt = frame[r].now /\ Docs!Honest(new)
  BY <1>1, <1>2 DEF Docs!Records, Docs!Honest
<1>5. ASSUME cached # None, cached.doc.version = s.version
      PROVE  old \in Docs!Records /\ old.cachedAt = frame[r].now /\ Docs!Honest(old)
  <2>1. cached \in Docs!Records /\ cached.doc \in Docs!Documents /\ cached.served \in Nat
    BY <1>1, <1>5 DEF Docs!Records
  <2>2. /\ old.doc = cached.doc /\ old.url = u /\ old.cachedAt = frame[r].now
        /\ old.served = IF cached.doc = here THEN clock ELSE cached.served
    BY <2>1 DEF Docs!Records
  <2>3. old \in Docs!Records
    BY <1>1, <1>2, <2>1 DEF Docs!Records
  <2>4. cached.doc.url = u => cached.doc = here
    BY <1>5, <2>1 DEF Docs!Documents
  <2> QED
    BY <1>1, <2>2, <2>3, <2>4 DEF Docs!Honest
<1> HIDE DEF old, new
<1> QED
  BY <1>3, <1>4, <1>5

(* The steps of a flight: the cache, the network.                          *)
LEMMA LookKeeps == ASSUME CacheInv, Docs!Bounds, NEW r \in Readers, Docs!Look(r) PROVE CacheInv'
<1> DEFINE u == ask[r][1]
           rec == cache[u]
           current == IF rec = None THEN u ELSE rec.url
           fr == [frame[r] EXCEPT !.cached = rec, !.current = current]
<1>1. /\ at[r] = "looking" /\ at[r] \in Docs!Busy /\ frame[r] \in Docs!Frames /\ u \in Origins
      /\ UNCHANGED <<clock, Docs!webVars, cache, ask>>
  BY DEF Docs!Look, Docs!Busy, CacheInv, FlightsHeld, Docs!Keys
<1>2. rec \in Docs!Records \union {None} /\ current \in Origins
  BY <1>1 DEF CacheInv, Docs!TypeOK, Docs!Records
<1>3. cache' \in [Origins -> Docs!Records \union {None}] /\ HonestCache'
  BY <1>1 DEF CacheInv, Docs!TypeOK, HonestCache
<1>4. CASE Docs!Settle(r, rec)
  BY <1>1, <1>2, <1>3, <1>4, SettleKeeps
<1>5. CASE /\ at' = [at EXCEPT ![r] = "asking"]
           /\ frame' = [frame EXCEPT ![r].cached = rec, ![r].current = current]
           /\ UNCHANGED <<flight, result>>
  <2>1. frame' = [frame EXCEPT ![r] = fr]
    BY <1>5, <1>1 DEF CacheInv, Docs!TypeOK
  <2> HIDE DEF rec, current
  <2>2. fr \in Docs!Frames /\ fr.now = frame[r].now /\ fr.got = frame[r].got
    BY <1>1, <1>2 DEF Docs!Frames
  <2>3. fr.got = None
    BY <1>1, <2>2 DEF CacheInv, FramesOnlyAtWork
  <2> HIDE DEF fr
  <2> QED
    BY <1>1, <1>3, <1>5, <2>1, <2>2, <2>3, WorkKeeps DEF Docs!Busy, Storing
<1> QED
  BY <1>4, <1>5 DEF Docs!Look

LEMMA AskKeeps == ASSUME CacheInv, Docs!Bounds, NEW r \in Readers, Docs!Ask(r) PROVE CacheInv'
<1> DEFINE u == frame[r].current
<1>1. /\ at[r] = "asking" /\ at[r] \in Docs!Busy /\ frame[r] \in Docs!Frames /\ u \in Origins
      /\ UNCHANGED <<clock, Docs!webVars, ask>>
  BY DEF Docs!Ask, Docs!Busy, CacheInv, FlightsHeld, Docs!Frames
<1>2. cache' = cache
  BY DEF Docs!Ask, Docs!Follow
<1>3. cache' \in [Origins -> Docs!Records \union {None}] /\ HonestCache'
  BY <1>2 DEF CacheInv, Docs!TypeOK, HonestCache
<1>4. CASE site[u].to # None /\ Docs!Follow(r, u)
  <2>1. CASE Docs!Settle(r, None)
    BY <1>1, <1>3, <2>1, SettleKeeps
  <2>2. CASE /\ frame' = [frame EXCEPT ![r].current = site[u].to, ![r].hops = @ + 1]
             /\ UNCHANGED <<cache, flight, at, result>>
    <3> DEFINE fr == [frame[r] EXCEPT !.current = site[u].to, !.hops = @ + 1]
    <3>1. site[u].to \in Origins
      BY <1>1, <1>4 DEF CacheInv, Docs!TypeOK, Docs!Sites
    <3>5. frame[r].hops \in Nat
      BY <1>1 DEF Docs!Frames
    <3>6. frame[r].hops + 1 \in Nat
      BY <3>5
    <3>2. fr \in Docs!Frames /\ fr.now = frame[r].now /\ fr.got = frame[r].got
      <4> DEFINE there == [frame[r] EXCEPT !.current = site[u].to]
      <4>1. /\ there \in Docs!Frames /\ there.now = frame[r].now /\ there.got = frame[r].got
            /\ there.hops = frame[r].hops
        BY <1>1, <3>1 DEF Docs!Frames
      <4>2. fr = [there EXCEPT !.hops = frame[r].hops + 1]
        BY <1>1 DEF Docs!Frames
      <4> HIDE DEF there, fr
      <4> QED
        BY <3>6, <4>1, <4>2 DEF Docs!Frames
    <3>3. frame' = [frame EXCEPT ![r] = fr]
      BY <2>2, <1>1 DEF CacheInv, Docs!TypeOK
    <3>4. at' = [at EXCEPT ![r] = "asking"] /\ frame[r].got = None
      BY <1>1, <2>2 DEF CacheInv, Docs!TypeOK, FramesOnlyAtWork
    <3> HIDE DEF fr
    <3> QED
      BY <1>1, <1>3, <2>2, <3>2, <3>3, <3>4, WorkKeeps DEF Docs!Busy, Storing
  <2> QED
    BY <1>4, <2>1, <2>2 DEF Docs!Follow
<1>5. CASE /\ frame' = [frame EXCEPT ![r].got = Docs!Received(r, u)]
           /\ at' = [at EXCEPT ![r] = "storing"]
           /\ UNCHANGED <<cache, flight, result>>
  <2> DEFINE got == Docs!Received(r, u)
  <2> DEFINE fr == [frame[r] EXCEPT !.got = got]
  <2>1. got \in Docs!Records /\ got.cachedAt = frame[r].now /\ Docs!Honest(got)
    BY <1>1, ReceivedIsHonest
  <2> HIDE DEF got
  <2>2. fr \in Docs!Frames /\ fr.now = frame[r].now /\ fr.got = got
    BY <1>1, <2>1 DEF Docs!Frames
  <2>3. frame' = [frame EXCEPT ![r] = fr]
    BY <1>5, <1>1 DEF CacheInv, Docs!TypeOK, got
  <2> HIDE DEF fr
  <2> QED
    BY <1>1, <1>3, <1>5, <2>1, <2>2, <2>3, WorkKeeps DEF Docs!Busy, Storing
<1> QED
  BY <1>4, <1>5 DEF Docs!Ask

(* Storing: under its own URL, or gone from the requested one.             *)
LEMMA StoreKeeps == ASSUME CacheInv, Docs!Bounds, NEW r \in Readers, Docs!Store(r) PROVE CacheInv'
<1> DEFINE got == frame[r].got
<1> DEFINE u == ask[r][1]
<1>1. /\ at[r] = "storing" /\ at[r] \in Docs!Busy /\ frame[r] \in Docs!Frames /\ u \in Origins
      /\ got \in Docs!Records /\ got.cachedAt = frame[r].now /\ Docs!Honest(got)
      /\ UNCHANGED <<clock, Docs!webVars, ask>>
  BY DEF Docs!Store, Docs!Busy, Storing, CacheInv, FlightsHeld, DatedFromStart, Docs!Keys
<1>2. \/ cache' = [cache EXCEPT ![u] = None]
      \/ cache' = [cache EXCEPT ![got.url] = got]
  BY DEF Docs!Store
<1>3. cache' \in [Origins -> Docs!Records \union {None}] /\ HonestCache'
  BY <1>1, <1>2 DEF CacheInv, Docs!TypeOK, HonestCache, Docs!Records
<1>4. CASE Docs!Settle(r, got)
  BY <1>1, <1>3, <1>4, SettleKeeps
<1>5. CASE at' = [at EXCEPT ![r] = "aliasing"] /\ UNCHANGED <<flight, frame, result>>
  <2>1. frame' = [frame EXCEPT ![r] = frame[r]]
    BY <1>5 DEF CacheInv, Docs!TypeOK
  <2> QED
    BY <1>1, <1>3, <1>5, <2>1, WorkKeeps DEF Docs!Busy, Storing
<1> QED
  BY <1>4, <1>5 DEF Docs!Store

(* Storing: under the requested URL, or gone from its own.                 *)
LEMMA AliasKeeps == ASSUME CacheInv, Docs!Bounds, NEW r \in Readers, Docs!Alias(r) PROVE CacheInv'
<1> DEFINE got == frame[r].got
<1> DEFINE u == ask[r][1]
<1>1. /\ at[r] \in Docs!Busy /\ u \in Origins /\ got \in Docs!Records /\ Docs!Honest(got)
      /\ Docs!Settle(r, got) /\ UNCHANGED <<clock, Docs!webVars, ask>>
  BY DEF Docs!Alias, Docs!Busy, Storing, CacheInv, FlightsHeld, DatedFromStart, Docs!Keys
<1>2. \/ cache' = [cache EXCEPT ![got.url] = None]
      \/ cache' = [cache EXCEPT ![u] = got]
  BY DEF Docs!Alias
<1>3. cache' \in [Origins -> Docs!Records \union {None}] /\ HonestCache'
  BY <1>1, <1>2 DEF CacheInv, Docs!TypeOK, HonestCache, Docs!Records
<1> QED
  BY <1>1, <1>3, SettleKeeps

(* A failure leaves the cache alone.                                       *)
LEMMA FailKeeps == ASSUME CacheInv, Docs!Bounds, NEW r \in Readers, Docs!Fail(r) PROVE CacheInv'
<1>1. /\ at[r] \in Docs!Busy /\ Docs!Settle(r, None)
      /\ UNCHANGED <<clock, Docs!webVars, ask, cache>>
  BY DEF Docs!Fail
<1>2. cache' \in [Origins -> Docs!Records \union {None}] /\ HonestCache'
  BY <1>1 DEF CacheInv, Docs!TypeOK, HonestCache
<1> QED
  BY <1>1, <1>2, SettleKeeps

(* The caller's end touches no flight.                                    *)
LEMMA ReleaseKeeps ==
  ASSUME CacheInv, Docs!Bounds, NEW r \in Readers, Docs!Release(r)
  PROVE  CacheInv'
<1> USE DEF CacheInv
<1>1. /\ at[r] = "done" /\ at' = [at EXCEPT ![r] = "idle"]
      /\ ask' = [ask EXCEPT ![r] = None] /\ result' = [result EXCEPT ![r] = None]
      /\ UNCHANGED <<clock, site, changes, cache, flight, frame>>
  BY DEF Docs!Release, Docs!webVars
<1>2. \A q \in Readers : at'[q] \in Docs!Busy \union {"joined"} =>
        q # r /\ at'[q] = at[q] /\ ask'[q] = ask[q]
  BY <1>1 DEF Docs!TypeOK, Docs!Busy
<1>3. Docs!TypeOK' /\ VersionsCount' /\ HonestCache'
  BY <1>1 DEF Docs!TypeOK, VersionsCount, HonestCache
<1>4. \A k \in Docs!Keys : flight[k] # None => flight[k] \in Readers /\ flight[k] # r
  BY <1>1 DEF Docs!TypeOK, FlightsHeld, Docs!Busy
<1>5. FlightsHeld'
  <2>1. \A k \in Docs!Keys : flight'[k] # None =>
          at'[flight'[k]] \in Docs!Busy /\ ask'[flight'[k]] = k
    BY <1>1, <1>4 DEF FlightsHeld, Docs!TypeOK
  <2> QED
    BY <1>1, <1>2, <2>1 DEF FlightsHeld
<1>6. DatedFromStart' /\ FramesOnlyAtWork'
  BY <1>1, <1>2 DEF DatedFromStart, FramesOnlyAtWork, Docs!TypeOK, Docs!Busy, Storing
<1> QED
  BY <1>3, <1>5, <1>6

-----------------------------------------------------------------------------
(* The calls.  A call waits for the cache exactly while it looks up or     *)
(* refreshes the policy.                                                   *)
Waiting == {"looking", "refreshing"}
WaitsInCache == \A f \in Fetches : stage[f] \in Waiting <=> at[f] # "idle"

(* The answer that a lookup gets or will get is not older than MaxAge at   *)
(* the time from which it may be answered.                                 *)
Aged(rec, t) == rec.doc.url = rec.url => rec.served + MaxAge > t
Awaits(f) ==
  /\ at[f] \in Docs!Busy => began[f] = frame[f].now
  /\ at[f] = "joined" => began[f] = frame[flight[ask[f]]].now
  /\ at[f] = "done" /\ result[f] # None => Aged(result[f], began[f])
PoliciesAreRecent ==
  \A f \in Fetches :
    /\ policy[f] # None => Aged(policy[f], began[f])
    /\ stage[f] = "looking" => Awaits(f)

(* What a call has, where it is: who invited it to authenticate, with      *)
(* which method, and what it has sent to its target.                       *)
Invited(f) ==
  challenger[f] = target[f] \/ (~strayed[f] /\ policy[f] # None /\ Policy(f) = "required")
CallOf(f) ==
  /\ demand[f] = strayed[f] /\ (~strayed[f] => target[f] = Home[f])
  /\ stage[f] \in {"idle", "look", "looking"} => policy[f] = None
  /\ stage[f] \in {"idle", "look", "looking", "ready"} => sent[f] = None
  /\ stage[f] \in {"challenged", "refreshing"} => challenger[f] = target[f]
  /\ stage[f] \in {"choose", "grant", "send", "sent"} => Invited(f)
  /\ stage[f] = "grant" => method[f] \in GrantTypes /\ Wished(f, method[f])
  /\ stage[f] \in {"send", "sent"} => method[f] \in Advertised[target[f]] /\ Wished(f, method[f])
  /\ sent[f] # None =>
       /\ sent[f].to = target[f]
       /\ sent[f].method # None => stage[f] = "sent" /\ sent[f].method = method[f]
       /\ sent[f].fields # "none" => target[f] = Home[f]
       /\ sent[f].fields = "plain" => ~strayed[f]
CallsRun == \A f \in Fetches : CallOf(f)

IInv == TypeOK /\ CacheInv /\ WaitsInCache /\ PoliciesAreRecent /\ CallsRun

-----------------------------------------------------------------------------
Reads(r) == \E u \in Origins, revalidate \in BOOLEAN : Docs!Read(r, u, revalidate)
CallStep(f) == CallSteps(f) \/ \E opt \in Options : Begin(f, opt)

(* What a call asks of the cache.                                          *)
LEMMA CallInCache ==
  ASSUME TypeOK, NEW f \in Fetches, CallStep(f)
  PROVE  UNCHANGED docVars \/ Docs!Release(f) \/ Reads(f)
<1>1. target[f] \in Origins
  BY DEF TypeOK
<1>2. CASE LookUp(f) \/ Revalidate(f)
  BY <1>1, <1>2 DEF LookUp, Revalidate, Reads
<1>3. CASE LookedUp(f) \/ Revalidated(f)
  BY <1>3 DEF LookedUp, Revalidated
<1>4. CASE Probe(f) \/ SkipProbe(f) \/ ProbeAnswered(f) \/ Choose(f) \/ Grant(f)
           \/ Authenticate(f) \/ Answered(f) \/ Abort(f) \/ \E opt \in Options : Begin(f, opt)
  BY <1>4 DEF Probe, SkipProbe, ProbeAnswered, Choose, Grant, Authenticate, Answered, Abort, Begin
<1> QED BY <1>2, <1>3, <1>4 DEF CallStep, CallSteps

(* What a step is to the cache.                                            *)
LEMMA CacheSteps ==
  ASSUME TypeOK, Next
  PROVE  \/ UNCHANGED docVars \/ Docs!Web
         \/ \E r \in Readers : Docs!Work(r) \/ Docs!Release(r) \/ Reads(r)
<1>1. ASSUME NEW f \in Fetches, CallStep(f) PROVE UNCHANGED docVars \/ Docs!Release(f) \/ Reads(f)
  BY <1>1, CallInCache
<1>2. ASSUME NEW q \in Others, OtherSteps(q) PROVE Docs!Release(q) \/ Reads(q)
  BY <1>2, ReadersAssumption DEF OtherSteps, Reads
<1> QED BY <1>1, <1>2 DEF Next, CallStep, DocSteps, Web, Readers

LEMMA CacheKept == TypeOK /\ CacheInv /\ [Next]_vars => CacheInv'
<1> SUFFICES ASSUME TypeOK, CacheInv, [Next]_vars PROVE CacheInv'
  OBVIOUS
<1> USE DocsAssumption
<1>1. CASE UNCHANGED docVars
  BY <1>1 DEF docVars, CacheInv, Docs!TypeOK, FlightsHeld, DatedFromStart,
              VersionsCount, FramesOnlyAtWork, HonestCache
<1>2. ASSUME NEW r \in Readers, Docs!Work(r) \/ Docs!Release(r) \/ Reads(r) PROVE CacheInv'
  BY <1>2, ReadKeeps, ReleaseKeeps, LookKeeps, AskKeeps, StoreKeeps, AliasKeeps, FailKeeps DEF Docs!Work, Reads
<1>3. UNCHANGED vars => UNCHANGED docVars
  BY DEF vars
<1> QED BY <1>1, <1>2, <1>3, CacheSteps, WebKeeps

-----------------------------------------------------------------------------
(* Readers that wait.  The flight of r settles with None or with a record  *)
(* dated from its beginning, for r and for those that joined it.           *)
LEMMA SettleAwaits ==
  ASSUME CacheInv, NEW r \in Readers, at[r] \in Docs!Busy, NEW rec, Docs!Settle(r, rec),
         ask' = ask, began' = began, rec # None => Aged(rec, frame[r].now),
         NEW f \in Readers, Awaits(f)
  PROVE  Awaits(f)'
<1>1. /\ flight' = [flight EXCEPT ![ask[r]] = None]
      /\ at' = [q \in Readers |-> IF q \in Docs!Together(r) THEN "done" ELSE at[q]]
      /\ result' = [q \in Readers |-> IF q \in Docs!Together(r) THEN rec ELSE result[q]]
      /\ frame' = [q \in Readers |-> IF q \in Docs!Together(r) THEN None ELSE frame[q]]
  BY DEF Docs!Settle, Docs!Done
<1>2. ask[r] \in Docs!Keys /\ flight[ask[r]] = r
  BY DEF CacheInv, FlightsHeld
<1>3. CASE f \in Docs!Together(r)
  <2>1. began[f] = frame[r].now
    BY <1>2, <1>3 DEF Docs!Together, Awaits
  <2>2. at'[f] = "done" /\ result'[f] = rec
    BY <1>1, <1>3
  <2> QED BY <2>1, <2>2 DEF Awaits, Docs!Busy
<1>4. CASE f \notin Docs!Together(r)
  <2>1. at'[f] = at[f] /\ result'[f] = result[f] /\ frame'[f] = frame[f]
    BY <1>1, <1>4
  <2>2. ASSUME at[f] = "joined" PROVE frame'[flight'[ask'[f]]].now = frame[flight[ask[f]]].now
    <3>1. ask[f] \in Docs!Keys /\ ask[f] # ask[r] /\ flight[ask[f]] # None
      BY <1>4, <2>2 DEF CacheInv, FlightsHeld, Docs!Together
    <3>2. flight[ask[f]] \in Readers /\ at[flight[ask[f]]] \in Docs!Busy
          /\ ask[flight[ask[f]]] = ask[f]
      BY <3>1 DEF CacheInv, FlightsHeld, Docs!TypeOK
    <3>3. flight[ask[f]] \notin Docs!Together(r)
      BY <3>1, <3>2 DEF Docs!Together, Docs!Busy
    <3>4. flight'[ask[f]] = flight[ask[f]]
      BY <1>1, <3>1 DEF CacheInv, Docs!TypeOK
    <3> QED BY <1>1, <3>2, <3>3, <3>4
  <2> QED BY <2>1, <2>2 DEF Awaits
<1> QED BY <1>3, <1>4

(* A record that was fresh at a time is not older than MaxAge then.        *)
LEMMA FreshIsAged ==
  ASSUME CacheInv, NEW u \in Origins, NEW t \in Nat, cache[u] # None, Docs!IsFresh(cache[u], t)
  PROVE  Aged(cache[u], t)
<1> DEFINE rec == cache[u]
<1>1. /\ rec.served \in Nat /\ rec.cachedAt \in Nat /\ rec.age \in Ages /\ Docs!Honest(rec)
  BY DEF CacheInv, Docs!TypeOK, Docs!Records, HonestCache
<1>2. rec.age # None /\ rec.cachedAt + rec.age > t
  BY DEF Docs!IsFresh
<1> HIDE DEF rec
<1>3. rec.age \in 0..MaxAge /\ MaxAge \in Nat
  BY <1>1, <1>2, DocsAssumption DEF Docs!Bounds
<1>4. rec.age \in Nat /\ rec.age <= MaxAge
  BY <1>3
<1>5. Aged(rec, t)
  BY <1>1, <1>2, <1>3, <1>4 DEF Aged, Docs!Honest
<1> QED BY <1>5 DEF rec

LEMMA WorkAwaits ==
  ASSUME CacheInv, NEW r \in Readers, Docs!Work(r), began' = began, NEW f \in Readers, Awaits(f)
  PROVE  Awaits(f)'
<1>0. /\ at[r] \in Docs!Busy /\ ask' = ask /\ frame[r] \in Docs!Frames
      /\ MaxAge \in Nat \ {0}
  BY DocsAssumption DEF Docs!Work, Docs!Look, Docs!Ask, Docs!Store, Docs!Alias, Docs!Fail, Docs!Busy,
                        CacheInv, FlightsHeld, Docs!Bounds
<1>1. CASE Docs!Settle(r, None)
  BY <1>0, <1>1, SettleAwaits
<1>2. CASE Docs!Settle(r, frame[r].got) /\ at[r] \in Storing
  <2>1. /\ frame[r].got \in Docs!Records /\ frame[r].got.cachedAt = frame[r].now
        /\ Docs!Honest(frame[r].got)
    BY <1>2 DEF CacheInv, DatedFromStart
  <2>2. frame[r].got.served \in Nat /\ frame[r].got.cachedAt \in Nat
    BY <2>1 DEF Docs!Records
  <2>3. Aged(frame[r].got, frame[r].now)
    BY <1>0, <2>1, <2>2 DEF Aged, Docs!Honest
  <2> QED BY <1>0, <1>2, <2>3, SettleAwaits
<1>3. CASE /\ UNCHANGED <<flight, result>> /\ at'[r] \in Docs!Busy
           /\ \A q \in Readers \ {r} : at'[q] = at[q] /\ frame'[q] = frame[q]
           /\ frame'[r].now = frame[r].now
  <2>1. \A q \in Readers : frame'[q].now = frame[q].now
    BY <1>3
  <2>2. at[f] = "joined" => flight[ask[f]] \in Readers
    BY DEF CacheInv, FlightsHeld, Docs!TypeOK
  <2> QED BY <1>0, <1>3, <2>1, <2>2 DEF Awaits, Docs!Busy
<1>4. CASE Docs!Ask(r)
  <2>1. CASE Docs!Follow(r, frame[r].current)
    <3>1. CASE frame' = [frame EXCEPT ![r].current = site[frame[r].current].to, ![r].hops = @ + 1]
               /\ UNCHANGED <<cache, flight, at, result>>
      BY <1>0, <1>3, <3>1 DEF CacheInv, Docs!TypeOK, Docs!Frames
    <3> QED BY <1>1, <2>1, <3>1 DEF Docs!Follow
  <2>2. CASE /\ frame' = [frame EXCEPT ![r].got = Docs!Received(r, frame[r].current)]
             /\ at' = [at EXCEPT ![r] = "storing"] /\ UNCHANGED <<cache, flight, result>>
    BY <1>0, <1>3, <2>2 DEF CacheInv, Docs!TypeOK, Docs!Frames, Docs!Busy
  <2> QED BY <1>4, <2>1, <2>2 DEF Docs!Ask
<1>5. CASE Docs!Store(r)
  <2>1. CASE at' = [at EXCEPT ![r] = "aliasing"] /\ UNCHANGED <<flight, frame, result>>
    BY <1>3, <2>1 DEF CacheInv, Docs!TypeOK, Docs!Busy
  <2> QED BY <1>2, <1>5, <2>1 DEF Docs!Store, Storing
<1>6. CASE Docs!Alias(r)
  BY <1>2, <1>6 DEF Docs!Alias, Storing
<1>7. CASE Docs!Fail(r)
  BY <1>1, <1>7 DEF Docs!Fail
<1>8. CASE Docs!Look(r)
  <2> DEFINE u == ask[r][1]
             rec == cache[u]
             current == IF rec = None THEN u ELSE rec.url
  <2>1. CASE rec # None /\ Docs!IsFresh(rec, frame[r].now) /\ Docs!Settle(r, rec)
    <3>1. u \in Origins /\ frame[r].now \in Nat
      BY <1>0 DEF CacheInv, FlightsHeld, Docs!Keys, Docs!Frames
    <3>2. Aged(rec, frame[r].now)
      BY <2>1, <3>1, FreshIsAged DEF CacheInv
    <3> QED BY <1>0, <2>1, <3>2, SettleAwaits
  <2>2. CASE /\ at' = [at EXCEPT ![r] = "asking"] /\ UNCHANGED <<flight, result>>
             /\ frame' = [frame EXCEPT ![r].cached = rec, ![r].current = current]
    <3> HIDE DEF rec, current
    <3> QED BY <1>0, <1>3, <2>2 DEF CacheInv, Docs!TypeOK, Docs!Frames, Docs!Busy
  <2> QED BY <1>8, <2>1, <2>2 DEF Docs!Look
<1> QED BY <1>4, <1>5, <1>6, <1>7, <1>8 DEF Docs!Work

(* Others that read or leave, the web and the clock do not matter to who   *)
(* waits.                                                                  *)
LEMMA OthersAwait ==
  ASSUME CacheInv, NEW f \in Readers, Awaits(f), began'[f] = began[f],
         \/ UNCHANGED docVars \/ Docs!Web
         \/ \E r \in Readers \ {f} : Docs!Release(r) \/ Reads(r)
  PROVE  Awaits(f)'
<1>1. at[f] = "joined" =>
        /\ ask[f] \in Docs!Keys /\ flight[ask[f]] \in Readers
        /\ at[flight[ask[f]]] \in Docs!Busy /\ flight[ask[f]] # None
  BY DEF CacheInv, FlightsHeld, Docs!TypeOK
<1>2. CASE UNCHANGED <<flight, ask, at, frame, result>>
  BY <1>2 DEF Awaits
<1>3. ASSUME NEW r \in Readers \ {f}, Docs!Release(r) PROVE Awaits(f)'
  <2>1. /\ at'[f] = at[f] /\ ask'[f] = ask[f] /\ result'[f] = result[f]
        /\ flight' = flight /\ frame' = frame
    BY <1>3 DEF Docs!Release, CacheInv, Docs!TypeOK
  <2> QED BY <2>1 DEF Awaits
<1>4. ASSUME NEW r \in Readers \ {f}, Reads(r) PROVE Awaits(f)'
  <2>1. PICK u \in Origins, revalidate \in BOOLEAN : Docs!Read(r, u, revalidate)
    BY <1>4 DEF Reads
  <2>2. /\ \A q \in Readers \ {r} : at'[q] = at[q] /\ ask'[q] = ask[q] /\ result'[q] = result[q]
                                    /\ frame'[q] = frame[q]
        /\ at[r] = "idle"
    BY <2>1 DEF Docs!Read, CacheInv, Docs!TypeOK
  <2>3. \A k \in Docs!Keys : flight[k] # None => flight'[k] = flight[k]
    BY <2>1 DEF Docs!Read, CacheInv, Docs!TypeOK
  <2>4. at[f] = "joined" => flight[ask[f]] # r
    BY <1>1, <2>2 DEF Docs!Busy
  <2> QED BY <1>1, <2>2, <2>3, <2>4 DEF Awaits
<1>5. Docs!Web \/ UNCHANGED docVars => UNCHANGED <<flight, ask, at, frame, result>>
  BY DEF Docs!Web, Docs!Tick, Docs!Publish, Docs!Move, Docs!cacheVars, docVars
<1> QED BY <1>2, <1>3, <1>4, <1>5

(* A lookup begins: it joins a flight or begins one.                       *)
LEMMA LookUpAwaits ==
  ASSUME TypeOK, CacheInv, NEW f \in Fetches, LookUp(f), stage'[f] = "looking"
  PROVE  Awaits(f)'
<1> DEFINE u == target[f]
           k == <<u, FALSE>>
<1>0. f \in Readers /\ u \in Origins /\ k \in Docs!Keys
  BY DEF TypeOK, Readers, Docs!Keys
<1>1. /\ Docs!Read(f, u, FALSE)
      /\ began' = [began EXCEPT ![f] = IF flight[k] = None THEN clock ELSE frame[flight[k]].now]
  BY DEF LookUp, Go, TypeOK
<1>2. ask'[f] = k /\ began'[f] = IF flight[k] = None THEN clock ELSE frame[flight[k]].now
  BY <1>0, <1>1 DEF Docs!Read, CacheInv, Docs!TypeOK, TypeOK
<1>3. CASE flight[k] # None
  <2>1. at'[f] = "joined" /\ UNCHANGED <<flight, frame>>
    BY <1>0, <1>1, <1>3 DEF Docs!Read, CacheInv, Docs!TypeOK
  <2> QED BY <1>2, <1>3, <2>1 DEF Awaits, Docs!Busy
<1>4. CASE flight[k] = None /\ at' = [at EXCEPT ![f] = "looking"]
           /\ frame' = [frame EXCEPT ![f] =
                [now |-> clock, cached |-> None, hops |-> 0, got |-> None, current |-> u]]
  <2>1. at'[f] = "looking" /\ frame'[f].now = clock
    BY <1>0, <1>4 DEF CacheInv, Docs!TypeOK
  <2> QED BY <1>2, <1>4, <2>1 DEF Awaits
<1> QED BY <1>1, <1>3, <1>4 DEF Docs!Read

-----------------------------------------------------------------------------
(* A step of one call leaves the others alone.                             *)
SameCall(g) ==
  /\ stage'[g] = stage[g] /\ target'[g] = target[g] /\ demand'[g] = demand[g]
  /\ policy'[g] = policy[g] /\ option'[g] = option[g] /\ method'[g] = method[g]
  /\ challenger'[g] = challenger[g] /\ strayed'[g] = strayed[g] /\ began'[g] = began[g]
  /\ sent'[g] = sent[g]
LEMMA OtherCalls ==
  ASSUME TypeOK, NEW f \in Fetches, CallStep(f), NEW g \in Fetches \ {f}
  PROVE  SameCall(g)
<1> USE DEF TypeOK, SameCall, Go, Keep, history
<1>1. CASE End(f)
  BY <1>1 DEF End
<1>2. ASSUME NEW o \in Origins, Redirected(f, o) PROVE SameCall(g)
  BY <1>1, <1>2 DEF Redirected
<1>3. CASE LookUp(f) \/ LookedUp(f) \/ Probe(f) \/ SkipProbe(f)
  BY <1>3 DEF LookUp, LookedUp, Probe, SkipProbe, Send
<1>4. CASE ProbeAnswered(f)
  BY <1>1, <1>2, <1>4 DEF ProbeAnswered
<1>5. CASE Revalidate(f) \/ Revalidated(f)
  BY <1>5 DEF Revalidate, Revalidated
<1>6. CASE Choose(f)
  BY <1>6 DEF Choose
<1>7. CASE Grant(f)
  BY <1>1, <1>7 DEF Grant
<1>8. CASE Authenticate(f)
  BY <1>8 DEF Authenticate, Send
<1>9. CASE Answered(f) \/ Abort(f)
  BY <1>1, <1>2, <1>9 DEF Answered, Abort
<1>10. CASE \E opt \in Options : Begin(f, opt)
  BY <1>10 DEF Begin
<1> QED BY <1>3, <1>4, <1>5, <1>6, <1>7, <1>8, <1>9, <1>10 DEF CallStep, CallSteps

(* A call that ends, or follows a redirect, has nothing to show for.       *)
LEMMA EndOf ==
  ASSUME TypeOK, NEW f \in Fetches, End(f)
  PROVE  /\ CallOf(f)' /\ stage'[f] = "done" /\ policy'[f] = None
         /\ stage' \in [Fetches -> Stages] /\ target' \in [Fetches -> Origins]
         /\ redirects' \in [Fetches -> 0..MaxRedirects] /\ demand' \in [Fetches -> BOOLEAN]
         /\ policy' \in [Fetches -> Docs!Records \union {None}]
         /\ option' \in [Fetches -> Options \union {None}]
         /\ method' \in [Fetches -> GrantTypes \union {Jwt, None}]
         /\ challenger' \in [Fetches -> Origins \union {None}]
         /\ strayed' \in [Fetches -> BOOLEAN] /\ began' \in [Fetches -> Nat]
         /\ sent' \in [Fetches -> Requests \union {None}]
<1>1. MaxRedirects \in Nat /\ Home[f] \in Origins
  BY OptionsAssumption, TargetsAssumption
<1>2. /\ stage'[f] = "done" /\ target'[f] = Home[f] /\ ~demand'[f] /\ ~strayed'[f]
      /\ demand'[f] = strayed'[f] /\ policy'[f] = None /\ sent'[f] = None
  BY DEF End, Go, TypeOK
<1>3. CallOf(f)'
  BY <1>2 DEF CallOf
<1> QED BY <1>1, <1>2, <1>3 DEF End, Go, TypeOK, Stages

LEMMA RedirectedOf ==
  ASSUME TypeOK, NEW f \in Fetches, NEW o \in Origins, CallOf(f), Redirected(f, o)
  PROVE  /\ CallOf(f)' /\ stage'[f] \in {"look", "done"} /\ policy'[f] = None
         /\ stage' \in [Fetches -> Stages] /\ target' \in [Fetches -> Origins]
         /\ redirects' \in [Fetches -> 0..MaxRedirects] /\ demand' \in [Fetches -> BOOLEAN]
         /\ policy' \in [Fetches -> Docs!Records \union {None}]
         /\ option' \in [Fetches -> Options \union {None}]
         /\ method' \in [Fetches -> GrantTypes \union {Jwt, None}]
         /\ challenger' \in [Fetches -> Origins \union {None}]
         /\ strayed' \in [Fetches -> BOOLEAN] /\ began' \in [Fetches -> Nat]
         /\ sent' \in [Fetches -> Requests \union {None}]
<1>1. CASE Exhausted(f)
  BY <1>1, EndOf DEF Redirected
<1>2. CASE ~Exhausted(f)
  <2>1. redirects[f] + 1 \in 0..MaxRedirects
    BY <1>2, OptionsAssumption DEF Exhausted, TypeOK
  <2>2. /\ stage' = [stage EXCEPT ![f] = "look"] /\ target' = [target EXCEPT ![f] = o]
        /\ redirects' = [redirects EXCEPT ![f] = redirects[f] + 1]
        /\ demand' = [demand EXCEPT ![f] = demand[f] \/ o # target[f]]
        /\ strayed' = [strayed EXCEPT ![f] = strayed[f] \/ o # target[f]]
        /\ policy' = [policy EXCEPT ![f] = None] /\ method' = [method EXCEPT ![f] = None]
        /\ challenger' = [challenger EXCEPT ![f] = None] /\ sent' = [sent EXCEPT ![f] = None]
        /\ UNCHANGED <<option, began>>
    BY <1>2 DEF Redirected, Go, Demanded
  <2>3. /\ stage' \in [Fetches -> Stages] /\ target' \in [Fetches -> Origins]
        /\ redirects' \in [Fetches -> 0..MaxRedirects] /\ demand' \in [Fetches -> BOOLEAN]
        /\ policy' \in [Fetches -> Docs!Records \union {None}]
        /\ option' \in [Fetches -> Options \union {None}]
        /\ method' \in [Fetches -> GrantTypes \union {Jwt, None}]
        /\ challenger' \in [Fetches -> Origins \union {None}]
        /\ strayed' \in [Fetches -> BOOLEAN] /\ began' \in [Fetches -> Nat]
        /\ sent' \in [Fetches -> Requests \union {None}]
    BY <2>1, <2>2 DEF TypeOK, Stages
  <2>4. /\ demand'[f] = (demand[f] \/ o # target[f]) /\ strayed'[f] = (strayed[f] \/ o # target[f])
        /\ stage'[f] = "look" /\ target'[f] = o /\ policy'[f] = None /\ sent'[f] = None
    BY <2>2 DEF TypeOK
  <2>5. demand'[f] = strayed'[f] /\ (~strayed'[f] => target'[f] = Home[f])
    BY <2>4 DEF CallOf
  <2>6. CallOf(f)'
    BY <2>4, <2>5 DEF CallOf
  <2> QED BY <2>3, <2>4, <2>6
<1> QED BY <1>1, <1>2

(* Methods that may be presented, and that may be asked for.               *)
LEMMA MethodsOf ==
  ASSUME TypeOK, NEW f \in Fetches
  PROVE  /\ Presentable(f) \subseteq (GrantTypes \union {Jwt}) \intersect Advertised[target[f]]
         /\ \A m \in Presentable(f) : Wished(f, m)
         /\ Grantable(f) \subseteq GrantTypes /\ \A m \in Grantable(f) : Wished(f, m)
         /\ Usable(f) \subseteq Advertised[target[f]]
<1>1. target[f] \in Origins /\ held[target[f]] \subseteq GrantTypes
  BY DEF TypeOK
<1>2. Usable(f) \subseteq Advertised[target[f]]
  BY DEF Usable
<1>3. /\ Stored(f) \subseteq GrantTypes \intersect Advertised[target[f]]
      /\ \A m \in Stored(f) : Wished(f, m)
  BY <1>1, <1>2 DEF Stored
<1>4. Presentable(f) \subseteq Stored(f) \union ({Jwt} \intersect Usable(f))
      /\ \A m \in Presentable(f) : Wished(f, m)
  BY <1>3 DEF Presentable, Wished
<1>5. Methods(f) \subseteq Advertised[target[f]] \union Required[target[f]]
  BY DEF Methods
<1>6. Grantable(f) \subseteq GrantTypes
  <2>1. ASSUME NEW m \in Advertised[target[f]] \union Required[target[f]], m # Jwt
        PROVE m \in GrantTypes
    <3> DEFINE all == {Advertised[o] \union Required[o] : o \in Origins}
    <3>1. Advertised[target[f]] \union Required[target[f]] \in all
      BY <1>1
    <3>2. m \in UNION all
      BY <3>1
    <3> QED BY <2>1, <3>2 DEF GrantTypes
  <2> QED BY <1>5, <2>1 DEF Grantable
<1>7. \A m \in Grantable(f) : Wished(f, m)
  BY DEF Grantable
<1> QED BY <1>2, <1>3, <1>4, <1>6, <1>7

(* Every step of a call keeps what it has.                                 *)
LEMMA CallKept ==
  ASSUME TypeOK, NEW f \in Fetches, CallOf(f), CallStep(f)
  PROVE  CallOf(f)'
<1> USE DEF TypeOK, Go, Keep, history
<1>1. CASE \E opt \in Options : Begin(f, opt)
  BY <1>1 DEF Begin, CallOf
<1>2. CASE LookUp(f)
  BY <1>2 DEF LookUp, CallOf
<1>3. CASE LookedUp(f)
  BY <1>3 DEF LookedUp, CallOf
<1>4. CASE Probe(f)
  <2>1. /\ stage'[f] = "probing" /\ sent'[f].to = target[f] /\ sent'[f].method = None
        /\ sent'[f].fields \in {"none", "plain"} /\ (sent'[f].fields = "plain" => ~demand[f])
    BY <1>4 DEF Probe, Send
  <2> QED BY <1>4, <2>1 DEF Probe, CallOf
<1>5. CASE SkipProbe(f)
  <2>1. Policy(f) = "required" /\ ~demand[f] /\ policy[f] # None
    BY <1>5 DEF SkipProbe, MayProbe, Policy
  <2> QED BY <1>5, <2>1 DEF SkipProbe, CallOf, Invited, Policy
<1>6. CASE ProbeAnswered(f)
  <2>1. CASE End(f) \/ \E o \in Origins : Redirected(f, o)
    BY <2>1, EndOf, RedirectedOf
  <2>2. CASE /\ Go(f, "challenged")
             /\ challenger' = [challenger EXCEPT ![f] = target[f]]
             /\ Keep(f) /\ UNCHANGED <<strayed, began, sent>>
    BY <1>6, <2>2 DEF ProbeAnswered, CallOf
  <2> QED BY <1>6, <2>1, <2>2 DEF ProbeAnswered
<1>7. CASE Revalidate(f) \/ Revalidated(f)
  BY <1>7 DEF Revalidate, Revalidated, CallOf, Invited
<1>8. CASE Choose(f)
  <2>1. \E m \in GrantTypes \union {Jwt} :
          /\ Wished(f, m) /\ method' = [method EXCEPT ![f] = m]
          /\ \/ m \in Advertised[target[f]] /\ Go(f, "send")
             \/ m \in GrantTypes /\ Go(f, "grant")
    BY <1>8, MethodsOf DEF Choose
  <2> QED BY <1>8, <2>1 DEF Choose, CallOf, Invited, Wished, Policy
<1>9. CASE Grant(f)
  <2>1. CASE Go(f, "send") /\ Keep(f) /\ UNCHANGED history /\ method[f] \in Usable(f)
    BY <1>9, <2>1, MethodsOf DEF Grant, CallOf, Invited, Wished, Policy
  <2> QED BY <1>9, <2>1, EndOf DEF Grant
<1>10. CASE Authenticate(f)
  <2>1. /\ stage'[f] = "sent" /\ sent'[f].to = target[f] /\ sent'[f].method = method[f]
        /\ sent'[f].fields \in {"none", "all"} /\ (sent'[f].fields = "all" => target[f] = Home[f])
    BY <1>10 DEF Authenticate, Send, Fields
  <2> QED BY <1>10, <2>1 DEF Authenticate, CallOf, Invited, Wished, Policy
<1>11. CASE Answered(f) \/ Abort(f)
  BY <1>11, EndOf, RedirectedOf DEF Answered, Abort
<1> QED BY <1>1, <1>2, <1>3, <1>4, <1>5, <1>6, <1>7, <1>8, <1>9, <1>10, <1>11
        DEF CallStep, CallSteps

(* Every variable of the calls keeps its type.                             *)
CallTypes ==
  /\ stage \in [Fetches -> Stages] /\ target \in [Fetches -> Origins]
  /\ redirects \in [Fetches -> 0..MaxRedirects] /\ demand \in [Fetches -> BOOLEAN]
  /\ policy \in [Fetches -> Docs!Records \union {None}]
  /\ option \in [Fetches -> Options \union {None}]
  /\ method \in [Fetches -> GrantTypes \union {Jwt, None}]
  /\ held \in [Origins -> SUBSET GrantTypes]
  /\ challenger \in [Fetches -> Origins \union {None}] /\ strayed \in [Fetches -> BOOLEAN]
  /\ began \in [Fetches -> Nat] /\ sent \in [Fetches -> Requests \union {None}]
LEMMA TypesKept ==
  ASSUME TypeOK, CacheInv, NEW f \in Fetches, CallOf(f), CallStep(f)
  PROVE  CallTypes'
<1> USE DEF Go, Keep, history
<1>0. CallTypes
  BY DEF TypeOK, CallTypes
<1>1. CASE End(f) /\ held' = held
  BY <1>0, <1>1, EndOf DEF CallTypes
<1>2. ASSUME NEW o \in Origins, Redirected(f, o), held' = held PROVE CallTypes'
  BY <1>0, <1>2, RedirectedOf DEF CallTypes
<1>3. CASE LookUp(f)
  <2>1. \A r \in Readers : at[r] \in Docs!Busy => frame[r].now \in Nat
    BY DEF CacheInv, FlightsHeld, Docs!Frames
  <2>2. \A k \in Docs!Keys : flight[k] # None => frame[flight[k]].now \in Nat
    BY <2>1 DEF CacheInv, FlightsHeld, Docs!TypeOK
  <2>3. clock \in Nat /\ <<target[f], FALSE>> \in Docs!Keys
    <3>1. clock \in 0..MaxTime /\ MaxTime \in Nat
      BY DocsAssumption DEF CacheInv, Docs!TypeOK, Docs!Bounds
    <3>2. target[f] \in Origins
      BY <1>0 DEF CallTypes
    <3>3. clock \in Nat
      BY <3>1
    <3>4. <<target[f], FALSE>> \in Docs!Keys
      BY <3>2, Zenon DEF Docs!Keys
    <3> QED BY <3>3, <3>4
  <2>4. began' \in [Fetches -> Nat]
    BY <1>0, <1>3, <2>2, <2>3 DEF LookUp, CallTypes
  <2> QED BY <1>0, <1>3, <2>4 DEF LookUp, CallTypes, Stages
<1>4. CASE LookedUp(f)
  <2>1. result[f] \in Docs!Records \union {None}
    BY DEF CacheInv, Docs!TypeOK, Readers
  <2> QED BY <1>0, <1>4, <2>1 DEF LookedUp, CallTypes, Stages
<1>5. CASE Probe(f)
  <2>1. [to |-> target[f], fields |-> IF demand[f] THEN "none" ELSE "plain", method |-> None]
          \in Requests
    BY <1>0 DEF Requests, CallTypes
  <2> QED BY <1>0, <1>5, <2>1 DEF Probe, Send, CallTypes, Stages
<1>6. CASE SkipProbe(f) \/ Revalidate(f) \/ Revalidated(f)
  BY <1>0, <1>6 DEF SkipProbe, Revalidate, Revalidated, CallTypes, Stages
<1>7. CASE ProbeAnswered(f)
  <2>1. CASE /\ Go(f, "challenged")
             /\ challenger' = [challenger EXCEPT ![f] = target[f]]
             /\ Keep(f) /\ UNCHANGED <<strayed, began, sent>>
    BY <1>0, <1>7, <2>1 DEF ProbeAnswered, CallTypes, Stages, callVars
  <2> QED BY <1>1, <1>2, <1>7, <2>1 DEF ProbeAnswered
<1>8. CASE Choose(f)
  <2>1. \E m \in GrantTypes \union {Jwt} :
          method' = [method EXCEPT ![f] = m] /\ (Go(f, "send") \/ Go(f, "grant"))
    BY <1>8, MethodsOf DEF Choose
  <2> QED BY <1>0, <1>8, <2>1 DEF Choose, CallTypes, Stages
<1>9. CASE Grant(f)
  <2>1. method[f] \in GrantTypes
    BY <1>9 DEF Grant, CallOf
  <2>2. held' \in [Origins -> SUBSET GrantTypes]
    BY <1>0, <1>9, <2>1 DEF Grant, CallTypes
  <2>3. CASE End(f)
    BY <1>0, <2>2, <2>3, EndOf DEF CallTypes
  <2>4. CASE Go(f, "send") /\ Keep(f) /\ UNCHANGED history
    BY <1>0, <1>9, <2>2, <2>4 DEF Grant, CallTypes, Stages
  <2> QED BY <1>9, <2>3, <2>4 DEF Grant
<1>10. CASE Authenticate(f)
  <2>1. [to |-> target[f], fields |-> Fields(f), method |-> method[f]] \in Requests
    BY <1>0 DEF Requests, Fields, CallTypes
  <2> QED BY <1>0, <1>10, <2>1 DEF Authenticate, Send, CallTypes, Stages
<1>11. CASE Answered(f) \/ Abort(f)
  BY <1>1, <1>2, <1>11 DEF Answered, Abort
<1>12. CASE \E opt \in Options : Begin(f, opt)
  BY <1>0, <1>12 DEF Begin, CallTypes, Stages
<1> QED BY <1>3, <1>4, <1>5, <1>6, <1>7, <1>8, <1>9, <1>10, <1>11, <1>12 DEF CallStep, CallSteps

(* A call waits for the cache exactly while it looks up or refreshes, and  *)
(* what is done for one reader leaves the others where they are, except    *)
(* that a flight settles for those that wait.                              *)
LEMMA ReadsOf ==
  ASSUME Docs!TypeOK, NEW r \in Readers, NEW u, NEW revalidate, Docs!Read(r, u, revalidate)
  PROVE  at[r] = "idle" /\ at'[r] # "idle" /\ \A q \in Readers \ {r} : at'[q] = at[q]
  BY DEF Docs!Read, Docs!Done, Docs!TypeOK
LEMMA ReleaseOf ==
  ASSUME Docs!TypeOK, NEW r \in Readers, Docs!Release(r)
  PROVE  /\ at[r] = "done" /\ at'[r] = "idle" /\ \A q \in Readers \ {r} : at'[q] = at[q]
  BY DEF Docs!Release, Docs!TypeOK
LEMMA WorkOf ==
  ASSUME CacheInv, NEW r \in Readers, Docs!Work(r), NEW q \in Readers
  PROVE  at'[q] = "idle" <=> at[q] = "idle"
<1>0. at[r] \in Docs!Busy /\ at[r] # "idle"
  BY DEF Docs!Work, Docs!Look, Docs!Ask, Docs!Store, Docs!Alias, Docs!Fail, Docs!Busy
<1>1. ASSUME NEW rec, Docs!Settle(r, rec) PROVE at'[q] = "idle" <=> at[q] = "idle"
  BY <1>0, <1>1 DEF Docs!Settle, Docs!Done, Docs!Together
<1>2. at' = at \/ (\E s \in Docs!Busy : at' = [at EXCEPT ![r] = s]) \/ \E rec : Docs!Settle(r, rec)
  BY DEF Docs!Work, Docs!Look, Docs!Ask, Docs!Follow, Docs!Store, Docs!Alias, Docs!Fail, Docs!Busy
<1>3. ASSUME NEW s \in Docs!Busy, at' = [at EXCEPT ![r] = s]
      PROVE  at'[q] = "idle" <=> at[q] = "idle"
  BY <1>0, <1>3 DEF CacheInv, Docs!TypeOK, Docs!Busy
<1> QED BY <1>1, <1>2, <1>3

LEMMA CallWaits ==
  ASSUME TypeOK, CacheInv, WaitsInCache, NEW f \in Fetches, CallStep(f)
  PROVE  /\ stage'[f] \in Waiting <=> at'[f] # "idle"
         /\ \A r \in Readers \ {f} : at'[r] = at[r]
<1> USE DEF TypeOK, Go, Waiting
<1>0. f \in Readers /\ Docs!TypeOK /\ (stage[f] \in Waiting <=> at[f] # "idle")
  BY DEF Readers, CacheInv, WaitsInCache
<1>1. CASE LookUp(f)
  <2>1. CASE Go(f, "ready") /\ UNCHANGED docVars
    BY <1>0, <1>1, <2>1 DEF LookUp, docVars
  <2>2. CASE Go(f, "looking") /\ Docs!Read(f, target[f], FALSE)
    <3>1. at'[f] # "idle" /\ \A r \in Readers \ {f} : at'[r] = at[r]
      BY <1>0, <2>2, ReadsOf
    <3> QED BY <2>2, <3>1
  <2> QED BY <1>1, <2>1, <2>2 DEF LookUp
<1>2. CASE Revalidate(f)
  <2>1. CASE Go(f, "choose") /\ UNCHANGED docVars
    BY <1>0, <1>2, <2>1 DEF Revalidate, docVars
  <2>2. CASE Go(f, "refreshing") /\ Docs!Read(f, target[f], TRUE)
    <3>1. at'[f] # "idle" /\ \A r \in Readers \ {f} : at'[r] = at[r]
      BY <1>0, <2>2, ReadsOf
    <3> QED BY <2>2, <3>1
  <2> QED BY <1>2, <2>1, <2>2 DEF Revalidate
<1>3. CASE LookedUp(f) \/ Revalidated(f)
  <2>1. Docs!Release(f) /\ (Go(f, "ready") \/ Go(f, "choose"))
    BY <1>3 DEF LookedUp, Revalidated
  <2>2. at'[f] = "idle" /\ \A r \in Readers \ {f} : at'[r] = at[r]
    BY <1>0, <2>1, ReleaseOf
  <2> QED BY <2>1, <2>2
<1>4. CASE stage[f] \notin Waiting /\ stage'[f] \notin Waiting /\ UNCHANGED docVars
  BY <1>0, <1>4 DEF docVars
<1>5. ASSUME End(f) \/ \E o \in Origins : Redirected(f, o) PROVE stage'[f] \notin Waiting
  BY <1>5 DEF End, Redirected
<1>6. CASE Probe(f) \/ SkipProbe(f) \/ ProbeAnswered(f) \/ Choose(f)
  BY <1>4, <1>5, <1>6 DEF Probe, SkipProbe, ProbeAnswered, Choose
<1>7. CASE Grant(f) \/ Authenticate(f) \/ Answered(f) \/ Abort(f) \/ \E opt \in Options : Begin(f, opt)
  BY <1>4, <1>5, <1>7 DEF Grant, Authenticate, Answered, Abort, Begin
<1> QED BY <1>1, <1>2, <1>3, <1>6, <1>7 DEF CallStep, CallSteps

(* Only a lookup that is made takes a policy and a time.                   *)
LEMMA PolicyOfCall ==
  ASSUME TypeOK, CacheInv, WaitsInCache, PoliciesAreRecent,
         NEW f \in Fetches, CallOf(f), CallOf(f)', CallStep(f)
  PROVE  /\ policy'[f] # None => Aged(policy[f], began[f])' /\ stage'[f] # "looking"
         /\ stage'[f] = "looking" => LookUp(f)
<1> USE DEF Go, Keep, history, TypeOK
<1>0. policy[f] # None => Aged(policy[f], began[f])
  BY DEF PoliciesAreRecent
<1>1. CASE LookUp(f)
  BY <1>1 DEF LookUp, CallOf
<1>2. CASE LookedUp(f)
  <2>1. /\ policy'[f] = result[f] /\ began'[f] = began[f] /\ stage'[f] = "ready"
        /\ at[f] = "done" /\ stage[f] = "looking"
    BY <1>2 DEF LookedUp, Docs!Release
  <2>2. result[f] # None => Aged(result[f], began[f])
    BY <2>1 DEF PoliciesAreRecent, Awaits
  <2> QED BY <2>1, <2>2 DEF Aged
<1>3. CASE End(f)
  BY <1>3, EndOf
<1>4. ASSUME NEW o \in Origins, Redirected(f, o)
      PROVE  policy'[f] = None /\ stage'[f] # "looking"
  BY <1>4, RedirectedOf
<1>5. CASE policy'[f] = policy[f] /\ began'[f] = began[f] /\ stage'[f] # "looking"
  BY <1>0, <1>5 DEF Aged
<1>6. CASE Probe(f) \/ SkipProbe(f) \/ ProbeAnswered(f)
  BY <1>3, <1>4, <1>5, <1>6 DEF Probe, SkipProbe, ProbeAnswered
<1>7. CASE Revalidate(f) \/ Revalidated(f) \/ Choose(f)
  BY <1>5, <1>7 DEF Revalidate, Revalidated, Choose
<1>8. CASE Grant(f) \/ Authenticate(f)
  BY <1>3, <1>5, <1>8 DEF Grant, Authenticate
<1>9. CASE Answered(f) \/ Abort(f) \/ \E opt \in Options : Begin(f, opt)
  BY <1>3, <1>4, <1>5, <1>9 DEF Answered, Abort, Begin
<1> QED BY <1>1, <1>2, <1>6, <1>7, <1>8, <1>9 DEF CallStep, CallSteps

(* A step of a call keeps the invariant.                                   *)
LEMMA CallsKeep ==
  ASSUME IInv, NEW f \in Fetches, CallStep(f), UNCHANGED spent, CacheInv'
  PROVE  IInv'
<1>0. /\ TypeOK /\ CacheInv /\ WaitsInCache /\ PoliciesAreRecent /\ CallOf(f)
      /\ \A g \in Fetches : CallOf(g)
  BY DEF IInv, CallsRun
<1>1. CallTypes' /\ CallOf(f)'
  BY <1>0, TypesKept, CallKept
<1>2. TypeOK'
  BY <1>0, <1>1 DEF TypeOK, CallTypes, CacheInv
<1>3. \A g \in Fetches \ {f} : SameCall(g)
  BY <1>0, OtherCalls
<1>4. CallsRun'
  <2>1. ASSUME NEW g \in Fetches \ {f} PROVE CallOf(g)'
    BY <1>0, <1>3 DEF SameCall, CallOf, Invited, Policy, Wished
  <2> QED BY <1>1, <2>1 DEF CallsRun
<1>5. WaitsInCache'
  <2>1. /\ stage'[f] \in Waiting <=> at'[f] # "idle"
        /\ \A r \in Readers \ {f} : at'[r] = at[r]
    BY <1>0, CallWaits
  <2> QED BY <1>0, <1>3, <2>1 DEF WaitsInCache, SameCall, Readers
<1>6. PoliciesAreRecent'
  <2>1. ASSUME NEW g \in Fetches \ {f}
        PROVE  /\ policy'[g] # None => Aged(policy[g], began[g])'
               /\ stage'[g] = "looking" => Awaits(g)'
    <3>1. SameCall(g)
      BY <1>3
    <3>2. policy[g] # None => Aged(policy[g], began[g])
      BY <1>0 DEF PoliciesAreRecent
    <3>3. ASSUME stage[g] = "looking" PROVE Awaits(g)'
      <4>1. Awaits(g) /\ g \in Readers /\ began'[g] = began[g] /\ f \in Readers \ {g}
        BY <1>0, <3>1, <3>3 DEF PoliciesAreRecent, SameCall, Readers
      <4>2. UNCHANGED docVars \/ Docs!Release(f) \/ Reads(f)
        BY <1>0, CallInCache
      <4> QED BY <1>0, <4>1, <4>2, OthersAwait
    <3> QED BY <3>1, <3>2, <3>3 DEF SameCall, Aged
  <2>2. /\ policy'[f] # None => Aged(policy[f], began[f])' /\ stage'[f] # "looking"
        /\ stage'[f] = "looking" => LookUp(f)
    BY <1>0, <1>1, PolicyOfCall
  <2>3. stage'[f] = "looking" => Awaits(f)'
    BY <1>0, <2>2, LookUpAwaits
  <2> QED BY <2>1, <2>2, <2>3 DEF PoliciesAreRecent
<1> QED BY <1>2, <1>4, <1>5, <1>6 DEF IInv

(* And so does a step of the cache, of its other readers or of the web.    *)
LEMMA CacheKeeps ==
  ASSUME IInv, UNCHANGED <<callVars, held, history>>, spent' \subseteq Others, CacheInv',
         \/ UNCHANGED docVars \/ Docs!Web
         \/ \E r \in Readers : Docs!Work(r)
         \/ \E q \in Others : Docs!Release(q) \/ Reads(q)
  PROVE  IInv'
<1> USE DEF callVars, history
<1>0. TypeOK /\ CacheInv /\ WaitsInCache /\ PoliciesAreRecent /\ CallsRun
  BY DEF IInv
<1>1. TypeOK'
  BY <1>0 DEF TypeOK, CacheInv
<1>2. CallsRun'
  BY <1>0 DEF CallsRun, CallOf, Invited, Policy, Wished
<1>3. WaitsInCache'
  <2>1. ASSUME NEW f \in Fetches PROVE at'[f] = "idle" <=> at[f] = "idle"
    <3>0. f \in Readers /\ Docs!TypeOK
      BY <1>0 DEF Readers, CacheInv
    <3>1. CASE UNCHANGED docVars \/ Docs!Web
      BY <3>1 DEF docVars, Docs!Web, Docs!Tick, Docs!Publish, Docs!Move, Docs!cacheVars
    <3>2. CASE \E r \in Readers : Docs!Work(r)
      BY <1>0, <3>0, <3>2, WorkOf
    <3>3. ASSUME NEW q \in Others, Docs!Release(q) \/ Reads(q) PROVE at'[f] = at[f]
      <4>1. q \in Readers /\ f \in Readers \ {q}
        BY ReadersAssumption DEF Readers
      <4> QED BY <3>0, <3>3, <4>1, ReadsOf, ReleaseOf DEF Reads
    <3> QED BY <3>1, <3>2, <3>3
  <2> QED BY <1>0, <2>1 DEF WaitsInCache
<1>4. PoliciesAreRecent'
  <2>1. ASSUME NEW f \in Fetches, Awaits(f) PROVE Awaits(f)'
    <3>1. f \in Readers
      BY DEF Readers
    <3>2. ASSUME NEW q \in Others, Docs!Release(q) \/ Reads(q) PROVE Awaits(f)'
      <4>1. q \in Readers \ {f}
        BY ReadersAssumption DEF Readers
      <4> QED BY <1>0, <2>1, <3>1, <3>2, <4>1, OthersAwait
    <3> QED BY <1>0, <2>1, <3>1, <3>2, OthersAwait, WorkAwaits
  <2> QED BY <1>0, <2>1 DEF PoliciesAreRecent, Aged
<1> QED BY <1>0, <1>1, <1>2, <1>3, <1>4 DEF IInv

-----------------------------------------------------------------------------
LEMMA InitInv == Init => IInv
<1> SUFFICES ASSUME Init PROVE IInv
  OBVIOUS
<1> USE DEF Init
<1>1. CacheInv
  BY InitHolds, DocsAssumption
<1>2. held \in [Origins -> SUBSET GrantTypes]
  <2> DEFINE all == {Advertised[o] \union Required[o] : o \in Origins}
  <2>1. ASSUME NEW o \in Origins PROVE held[o] \in SUBSET GrantTypes
    <3>1. Advertised[o] \union Required[o] \in all
      OBVIOUS
    <3>2. Advertised[o] \ {Jwt} \subseteq GrantTypes
      <4>1. Advertised[o] \subseteq UNION all
        BY <3>1
      <4> HIDE DEF all
      <4>2. GrantTypes = (UNION all) \ {Jwt}
        BY DEF GrantTypes, all
      <4> QED BY <4>1, <4>2
    <3>3. \A m \in held[o] : m \in Advertised[o] /\ m # Jwt
      <4>1. held[o] \subseteq UNION {Advertised[p] \ {Jwt} : p \in Origins}
        OBVIOUS
      <4>2. \A m \in UNION {Advertised[p] \ {Jwt} : p \in Origins} : m # Jwt
        OBVIOUS
      <4> QED BY <4>1, <4>2
    <3> QED BY <3>2, <3>3
  <2> QED BY <2>1
<1>3. TypeOK
  BY <1>1, <1>2, TargetsAssumption, OptionsAssumption DEF TypeOK, CacheInv, Stages
<1>4. WaitsInCache
  BY DEF WaitsInCache, Waiting, Docs!Init, Readers
<1>5. PoliciesAreRecent /\ CallsRun
  BY DEF PoliciesAreRecent, CallsRun, CallOf
<1> QED BY <1>1, <1>3, <1>4, <1>5 DEF IInv

LEMMA NextInv == IInv /\ [Next]_vars => IInv'
<1> SUFFICES ASSUME IInv, [Next]_vars PROVE IInv'
  OBVIOUS
<1>1. CacheInv' /\ spent \subseteq Others
  BY CacheKept DEF IInv, TypeOK
<1>2. ASSUME NEW f \in Fetches, CallStep(f), UNCHANGED spent PROVE IInv'
  BY <1>1, <1>2, CallsKeep
<1>3. CASE UNCHANGED vars \/ Web \/ \E r \in Readers : DocSteps(r)
  BY <1>1, <1>3, CacheKeeps DEF vars, Web, DocSteps
<1>4. ASSUME NEW q \in Others, OtherSteps(q) PROVE IInv'
  <2>1. UNCHANGED <<callVars, held, history>> /\ spent' \subseteq Others
    BY <1>1, <1>4 DEF OtherSteps
  <2>2. Docs!Release(q) \/ Reads(q)
    BY <1>4, ReadersAssumption DEF OtherSteps, Reads
  <2> QED BY <1>1, <2>1, <2>2, CacheKeeps
<1> QED BY <1>2, <1>3, <1>4 DEF Next, CallStep

(* The invariant holds of every behaviour.                                 *)
THEOREM Inductive == Spec => []IInv
  BY InitInv, NextInv, PTL DEF Spec

(* The variables of the calls and of the cache keep their types.           *)
THEOREM TypeCorrect == Spec => []TypeOK
<1>1. IInv => TypeOK
  BY DEF IInv
<1> QED BY <1>1, Inductive, PTL

(* A document in the cache, or about to be stored there, was on the web    *)
(* no earlier than the time it is dated with, however the flights of its   *)
(* readers overtake each other (fetchAepPublicDocument, persist).          *)
THEOREM AgesHonest == Spec => []AgeIsHonest
<1>1. IInv => AgeIsHonest
  BY InvIsHonest DEF IInv, AgeIsHonest
<1> QED BY <1>1, Inductive, PTL

(* The Agent authenticates to whoever has challenged it since its last     *)
(* redirect, or on the word of a policy that is not older than MaxAge to   *)
(* the origin that it was given and has not left (fetchProtectedResource). *)
THEOREM InvitedFirst == Spec => []AuthenticatesByInvitation
<1>1. IInv => AuthenticatesByInvitation
  BY DEF IInv, CallsRun, CallOf, Invited, PoliciesAreRecent, Aged, Recent,
         AuthenticatesByInvitation
<1> QED BY <1>1, Inductive, PTL

(* The caller's own header fields go to no other origin, and a request     *)
(* uses a method that its target advertises and its caller asked for       *)
(* (fetchProtectedResource, selectGrantType, authenticationHeaders).       *)
THEOREM OwnRequests == Spec => []RequestsCarryTheirOwn
<1>1. IInv => RequestsCarryTheirOwn
  BY DEF IInv, CallsRun, CallOf, RequestsCarryTheirOwn, Wished
<1> QED BY <1>1, Inductive, PTL
=============================================================================

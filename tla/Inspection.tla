------------------------------ MODULE Inspection ------------------------------
(***************************************************************************)
(* How one Agent inspects a Service that is deployed anew meanwhile        *)
(* (packages/agent/src/index.ts): inspectService called directly, with an  *)
(* AgentInspectCache, and the inspectOnce of a session, whose calls share  *)
(* a promise.  Every await ends a step.                                    *)
(*                                                                         *)
(* Documents are numbered as the Service serves them one after another.    *)
(* A session reads through fetchAepPublicDocument (PublicDocumentCache),   *)
(* of which only counts how old a document it may give.                    *)
(***************************************************************************)
EXTENDS Naturals, Sequences

CONSTANTS
  Inspections, None,
  Flights,       \* as many as Inspections
  Kinds,         \* bound: Kinds[i] for each inspection, "direct" or "session"; functions
  Versions,      \* 1..n, the documents of the Service
  Unbound,       \* those whose DID does not encode the origin
  Lifetime,      \* ticks that a document is fresh without a Cache-Control
  MaxTime,       \* bound: ticks that are counted
  Controls,      \* bound: of "default", "no-cache" and "no-store", what a document comes with
  MaxRedirects   \* 5

VARIABLES
  now, current,  \* the time, and the document that the Service serves
  last,          \* history: last[v], the last time that v was served, or None
  cache,         \* the AgentInspectCache: an entry or None
  promise,       \* inspectPromise of the session: a flight or None
  flight,        \* flight[f]: an inspection of the session or None
  kind,          \* kind[i]: how inspection i is done
  stage,         \* stage[i]: where it is
  frame          \* frame[i]: its locals

service == <<now, current, last>>
vars == <<service, cache, promise, flight, kind, stage, frame>>

Entry(v, at, control) == [version |-> v, at |-> at, control |-> control]
Local == [began |-> None, held |-> None, answer |-> None, flight |-> None, leads |-> FALSE, result |-> None]

Times == 0..MaxTime
Words == Controls \union {"default", "no-store"}
Entries == [version : Versions, at : Times, control : Words]
Answers == [version : Versions \union {None}, control : Words \union {None}]
Asked == [began : Times, settled : BOOLEAN, version : Versions \union {None}]

Init ==
  /\ now = 1 /\ current = 1
  /\ last = [v \in Versions |-> IF v = 1 THEN 1 ELSE None]
  /\ cache \in {None} \union {Entry(v, 0, "default") : v \in {1} \union Unbound}
  /\ promise = None
  /\ flight = [f \in Flights |-> None]
  /\ kind \in Kinds
  /\ stage = [i \in Inspections |-> "idle"]
  /\ frame = [i \in Inspections |-> Local]

Go(i, s, f) == stage' = [stage EXCEPT ![i] = s] /\ frame' = [frame EXCEPT ![i] = f]
Returns(i, v) == Go(i, "done", [Local EXCEPT !.began = frame[i].began, !.result = v])
Fails(i) == Returns(i, None)

-----------------------------------------------------------------------------
(* inspectService without a publicDocumentCache: the clock is read, then   *)
(* the cache.                                                              *)
Begin(i) ==
  /\ stage[i] \in {"idle", "done"} /\ kind[i] = "direct"
  /\ Go(i, "look", [Local EXCEPT !.began = now])
  /\ UNCHANGED <<service, cache, promise, flight>>

(* inspectCacheFresh.                                                      *)
Fresh(entry, time) == entry.control = "default" /\ entry.at + Lifetime > time

(* An entry that is not the origin's is dropped, which fails this call;    *)
(* one that is fresh is returned.                                          *)
Look(i) ==
  /\ stage[i] = "look"
  /\ \/ /\ cache # None /\ cache.version \in Unbound
        /\ cache' = None /\ Fails(i)
     \/ /\ cache # None /\ cache.version \notin Unbound /\ Fresh(cache, frame[i].began)
        /\ Returns(i, cache.version) /\ UNCHANGED cache
     \/ /\ cache # None => cache.version \notin Unbound /\ ~Fresh(cache, frame[i].began)
        /\ Go(i, "asked", [frame[i] EXCEPT !.held = cache]) /\ UNCHANGED cache
  /\ UNCHANGED <<service, promise, flight>>

(* fetchInspectService: redirects within the origin are followed, five of  *)
(* them; what comes then is a document, the word that the one that is held *)
(* has not changed, or nothing that can be used.                           *)
Fetched(hops, response) ==
  IF Len(hops) > MaxRedirects \/ \E h \in DOMAIN hops : hops[h] # "same" THEN None
  ELSE CASE response.status = 304 -> [version |-> None, control |-> response.control]
         [] response.status \in 200..299 /\ response.aep /\ response.fits /\ response.valid ->
              [version |-> response.version, control |-> response.control]
         [] OTHER -> None

(* The Service answers with its document, or with 304 to its validators.   *)
Responses(i) ==
  [status : {200}, version : {current}, control : Controls, aep : BOOLEAN, fits : BOOLEAN, valid : BOOLEAN]
    \union [status : IF frame[i].held = None THEN {304, 500}
                     ELSE IF frame[i].held.version = current THEN {304, 500} ELSE {500},
            version : {None}, control : {None, "no-store"}, aep : {FALSE}, fits : {FALSE}, valid : {FALSE}]
Serve(i) ==
  /\ stage[i] = "asked"
  /\ \E response \in Responses(i), hops \in {<<>>, <<"same">>, <<"other">>} :
       LET answer == Fetched(hops, response) IN
       IF answer = None THEN Fails(i) ELSE Go(i, "answered", [frame[i] EXCEPT !.answer = answer])
  /\ UNCHANGED <<service, cache, promise, flight>>

(* The rest of inspectService: the entry counts from when the call began,  *)
(* and takes the place of whatever is there by now.                        *)
RefreshedMutant(held, answer, began) ==
  Entry(held.version, now, IF answer.control = None THEN held.control ELSE answer.control)
Refreshed(held, answer, began) ==
  Entry(held.version, began, IF answer.control = None THEN held.control ELSE answer.control)
Keep(entry) == cache' = IF entry.control = "no-store" THEN None ELSE entry
Receive(i) ==
  LET held == frame[i].held  answer == frame[i].answer  began == frame[i].began IN
  /\ stage[i] = "answered"
  /\ \/ answer.version = None /\ held = None /\ Fails(i) /\ UNCHANGED cache
     \/ /\ answer.version = None /\ held # None
        /\ Keep(Refreshed(held, answer, began)) /\ Returns(i, held.version)
     \/ answer.version \in Unbound /\ Fails(i) /\ UNCHANGED cache
     \/ /\ answer.version \in Versions \ Unbound
        /\ Keep(Entry(answer.version, began, IF answer.control = None THEN "default" ELSE answer.control))
        /\ Returns(i, answer.version)
  /\ UNCHANGED <<service, promise, flight>>

-----------------------------------------------------------------------------
(* inspectOnce: the first caller starts an inspection, others join it.     *)
Once(i) ==
  /\ stage[i] \in {"idle", "done"} /\ kind[i] = "session"
  /\ \/ /\ promise # None
        /\ Go(i, "awaits", [Local EXCEPT !.began = flight[promise].began, !.flight = promise])
        /\ UNCHANGED <<promise, flight>>
     \/ /\ promise = None
        /\ LET f == CHOOSE g \in Flights : flight[g] = None IN
             /\ promise' = f
             /\ flight' = [flight EXCEPT ![f] = [began |-> now, settled |-> FALSE, version |-> None]]
             /\ Go(i, "awaits", [Local EXCEPT !.began = now, !.flight = f, !.leads = TRUE])
  /\ UNCHANGED <<service, cache>>

(* The inspection ends, with a document that its lifetime allows, if its   *)
(* DID is the origin's, or with an error.                                  *)
Settle(f) ==
  /\ flight[f] # None /\ ~flight[f].settled
  /\ \E v \in {None} \union {w \in Versions : last[w] # None /\ last[w] + Lifetime >= flight[f].began} :
       flight' = [flight EXCEPT ![f].settled = TRUE,
                                ![f].version = IF v \in Unbound THEN None ELSE v]
  /\ UNCHANGED <<service, cache, promise, stage, frame>>

(* Its callers go on; the one that started it clears the promise.          *)
ClearsMutant(i) == TRUE
Clears(i) == frame[i].leads
Return(i) ==
  LET f == frame[i].flight IN
  /\ stage[i] = "awaits" /\ flight[f].settled
  /\ promise' = IF Clears(i) THEN None ELSE promise
  /\ Returns(i, flight[f].version)
  /\ flight' = IF \E j \in Inspections \ {i} : stage[j] = "awaits" /\ frame[j].flight = f
               THEN flight ELSE [flight EXCEPT ![f] = None]
  /\ UNCHANGED <<service, cache>>

-----------------------------------------------------------------------------
Tick ==
  /\ now < MaxTime
  /\ now' = now + 1
  /\ last' = [last EXCEPT ![current] = now + 1]
  /\ UNCHANGED <<current, cache, promise, flight, stage, frame>>
Deploy ==
  /\ current + 1 \in Versions
  /\ current' = current + 1
  /\ last' = [last EXCEPT ![current + 1] = now]
  /\ UNCHANGED <<now, cache, promise, flight, stage, frame>>

Next ==
  \/ \E i \in Inspections :
       /\ UNCHANGED kind
       /\ Begin(i) \/ Look(i) \/ Serve(i) \/ Receive(i) \/ Once(i) \/ Return(i)
  \/ \E f \in Flights : Settle(f) /\ UNCHANGED kind
  \/ (Tick \/ Deploy) /\ UNCHANGED kind

-----------------------------------------------------------------------------
(* What an inspection returns was the Service's document, and of its       *)
(* origin, no longer than Lifetime before that inspection began, however   *)
(* answers to several of them overtake one another on the way into the     *)
(* cache.                                                                  *)
InspectedWasCurrent ==
  \A i \in Inspections :
    stage[i] = "done" /\ frame[i].result # None =>
      /\ frame[i].result \notin Unbound
      /\ last[frame[i].result] # None
      /\ last[frame[i].result] + Lifetime >= frame[i].began

(* A session has at most one inspection under way, the one it promised,    *)
(* which later callers find; and it keeps no promise once the one that     *)
(* made it has gone on: so each call is given a document that was asked    *)
(* for while it waited.                                                    *)
OneInspectionAtATime ==
  /\ {f \in Flights : flight[f] # None /\ ~flight[f].settled} \subseteq {promise}
  /\ promise # None =>
       \E i \in Inspections : stage[i] = "awaits" /\ frame[i].flight = promise /\ frame[i].leads
=============================================================================

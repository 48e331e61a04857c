-------------------------- MODULE ProtectedResource --------------------------
(***************************************************************************)
(* fetchProtectedResource of the Agent (packages/agent/src/index.ts):      *)
(* policy, anonymous probe, challenge, choice of a credential, Grant and   *)
(* the authenticated request, over redirects that may leave the origin and *)
(* come back, with the OpenAPI policy read through PublicDocumentCache.    *)
(*                                                                         *)
(* A target is its origin; each origin has one Service, with its OpenAPI   *)
(* document under the origin's name.  A request and its answer are one     *)
(* step: the answer may be anything, so nothing is lost.  The caller's     *)
(* HTTP method and body go unchanged with every request, probe and         *)
(* authenticated, to every target, of whatever origin; being constant,     *)
(* they are left out, and a request is the header fields it carries and    *)
(* the method it authenticates with.  Inspect fails or has constant        *)
(* content.  What redirectTarget and the parser of challenges *)
(* refuse ends the fetch, as any error and the timeout do (Abort).         *)
(***************************************************************************)
EXTENDS Naturals

CONSTANTS
  Fetches, Origins, None,
  Others,        \* other readers of the document cache
  OtherReads,    \* the keys under which they read
  Home,          \* Home[f]: the origin of the URL that fetch f is given
  Options,       \* what a fetch may ask for: [grant, pinned]
  PolicyOf(_),   \* the state that a version of an OpenAPI document gives
  Advertised,    \* Advertised[o]: the methods of o's Inspect document
  Required,      \* Required[o]: the methods a "required" policy of o lists
  MaxRedirects,
  Ages, MaxAge, Limit, MaxTime, MaxChanges  \* PublicDocumentCache

Jwt == "aep-jwt"
Readers == Fetches \union Others

VARIABLES
  stage,      \* stage[f]: where the call is
  target,     \* target[f]: the origin it has got to
  redirects,  \* redirects[f]: how many it has followed
  demand,     \* demand[f]: requireChallenge
  policy,     \* policy[f]: the record of the policy in force, or None
  option,     \* option[f]: the caller's options
  method,     \* method[f]: the method of the headers made, or None
  held,       \* held[o]: the grant types of stored credentials for o's Service
  challenger, \* history: the origin that challenged f since its last redirect
  strayed,    \* history: has f been redirected to another origin?
  began,      \* history: the time from which f's policy lookup may answer
  sent,       \* history: the latest request of f, or None
  spent,      \* bound: the other readers that have read
  clock, site, changes, cache, flight, ask, at, frame, result  \* the cache

Docs == INSTANCE PublicDocumentCache WITH Urls <- Origins

ASSUME DocsAssumption == Docs!Bounds
ASSUME ReadersAssumption ==
  Fetches \intersect Others = {} /\ OtherReads \subseteq Origins \X BOOLEAN
ASSUME TargetsAssumption == Home \in [Fetches -> Origins] /\ None \notin Origins
ASSUME OptionsAssumption == MaxRedirects \in Nat /\ \A o \in Options : o.pinned \in BOOLEAN

docVars == <<clock, site, changes, cache, flight, ask, at, frame, result>>
callVars == <<stage, target, redirects, demand, policy, option, method>>
history == <<challenger, strayed, began, sent>>
vars == <<callVars, held, spent, history, docVars>>

Init ==
  /\ Docs!Init
  /\ stage = [f \in Fetches |-> "idle"]
  /\ target = Home
  /\ redirects = [f \in Fetches |-> 0]
  /\ demand = [f \in Fetches |-> FALSE]
  /\ policy = [f \in Fetches |-> None]
  /\ option = [f \in Fetches |-> None]
  /\ method = [f \in Fetches |-> None]
  /\ held \in [Origins -> SUBSET UNION {Advertised[o] \ {Jwt} : o \in Origins}]
  /\ \A o \in Origins : held[o] \subseteq Advertised[o]
  /\ challenger = [f \in Fetches |-> None]
  /\ strayed = [f \in Fetches |-> FALSE]
  /\ began = [f \in Fetches |-> 0]
  /\ sent = [f \in Fetches |-> None]
  /\ spent = {}

-----------------------------------------------------------------------------
Go(f, s) == stage' = [stage EXCEPT ![f] = s]
Keep(f) == UNCHANGED <<target, redirects, demand, policy, option, method>>

(* The call returns or throws; nothing of it is left.                      *)
End(f) ==
  /\ Go(f, "done")
  /\ target' = [target EXCEPT ![f] = Home[f]]
  /\ redirects' = [redirects EXCEPT ![f] = 0]
  /\ demand' = [demand EXCEPT ![f] = FALSE]
  /\ strayed' = [strayed EXCEPT ![f] = FALSE]
  /\ began' = [began EXCEPT ![f] = 0]
  /\ option' = [option EXCEPT ![f] = None]
  /\ policy' = [policy EXCEPT ![f] = None]
  /\ method' = [method EXCEPT ![f] = None]
  /\ sent' = [sent EXCEPT ![f] = None]
  /\ challenger' = [challenger EXCEPT ![f] = None]

(* The answer is a redirect to o: from there the flow starts again, and    *)
(* anonymously until a challenge once it has left an origin.               *)
DemandedMutant(f, o) == o # target[f]
Demanded(f, o) == demand[f] \/ o # target[f]
Exhausted(f) == redirects[f] >= MaxRedirects
Redirected(f, o) ==
  IF Exhausted(f) THEN End(f)
  ELSE /\ Go(f, "look")
       /\ target' = [target EXCEPT ![f] = o]
       /\ redirects' = [redirects EXCEPT ![f] = @ + 1]
       /\ demand' = [demand EXCEPT ![f] = Demanded(f, o)]
       /\ strayed' = [strayed EXCEPT ![f] = @ \/ o # target[f]]
       /\ policy' = [policy EXCEPT ![f] = None]
       /\ method' = [method EXCEPT ![f] = None]
       /\ challenger' = [challenger EXCEPT ![f] = None]
       /\ sent' = [sent EXCEPT ![f] = None]
       /\ UNCHANGED <<option, began>>

Begin(f, opt) ==
  /\ stage[f] = "idle"
  /\ Go(f, "look")
  /\ option' = [option EXCEPT ![f] = opt]
  /\ UNCHANGED <<target, redirects, demand, policy, method, held, history, docVars>>

(* session.openApiPolicy, unless Inspect fails or names no OpenAPI         *)
(* document.  A lookup that joins a flight may be answered with what the   *)
(* web had when that flight began.                                         *)
LookUp(f) ==
  LET leader == flight[<<target[f], FALSE>>] IN
  /\ stage[f] = "look"
  /\ \/ Go(f, "ready") /\ UNCHANGED <<began, docVars>>
     \/ /\ Go(f, "looking")
        /\ Docs!Read(f, target[f], FALSE)
        /\ began' = [began EXCEPT ![f] = IF leader = None THEN clock ELSE frame[leader].now]
  /\ Keep(f) /\ UNCHANGED <<held, challenger, strayed, sent>>
LookedUp(f) ==
  /\ stage[f] = "looking"
  /\ Docs!Release(f)
  /\ Go(f, "ready")
  /\ policy' = [policy EXCEPT ![f] = result[f]]
  /\ UNCHANGED <<target, redirects, demand, option, method, held, history>>

Policy(f) == IF policy[f] = None THEN "fallback" ELSE PolicyOf(policy[f].doc)

(* The anonymous probe, with the caller's header fields except for those   *)
(* of authentication or, after a redirect to another origin, with none;    *)
(* skipped only when the policy says "required" and there was no such      *)
(* redirect.                                                               *)
Send(f, fields, m) ==
  sent' = [sent EXCEPT ![f] = [to |-> target[f], fields |-> fields, method |-> m]]
MayProbe(f) == Policy(f) # "required" \/ demand[f]
Probe(f) ==
  /\ stage[f] = "ready" /\ MayProbe(f)
  /\ Go(f, "probing")
  /\ Send(f, IF demand[f] THEN "none" ELSE "plain", None)
  /\ Keep(f) /\ UNCHANGED <<held, challenger, strayed, began, docVars>>
SkipProbe(f) ==
  /\ stage[f] = "ready" /\ ~MayProbe(f)
  /\ Go(f, "choose")
  /\ Keep(f) /\ UNCHANGED <<held, history, docVars>>

(* The probe is answered: a redirect; a response for the caller; or a      *)
(* challenge of the target's own Service, as Inspect names it.             *)
ProbeAnswered(f) ==
  /\ stage[f] = "probing"
  /\ \/ \E o \in Origins : Redirected(f, o)
     \/ End(f)
     \/ /\ Go(f, "challenged")
        /\ challenger' = [challenger EXCEPT ![f] = target[f]]
        /\ Keep(f) /\ UNCHANGED <<strayed, began, sent>>
  /\ UNCHANGED <<held, docVars>>

(* A challenge that contradicts a "public" policy has it revalidated; what *)
(* that yields is not looked at.                                           *)
Revalidate(f) ==
  /\ stage[f] = "challenged"
  /\ \/ Go(f, "choose") /\ UNCHANGED docVars
     \/ /\ Policy(f) = "public"
        /\ Go(f, "refreshing")
        /\ Docs!Read(f, target[f], TRUE)
  /\ Keep(f) /\ UNCHANGED <<held, history>>
Revalidated(f) ==
  /\ stage[f] = "refreshing"
  /\ Docs!Release(f)
  /\ Go(f, "choose")
  /\ Keep(f) /\ UNCHANGED <<held, history>>

-----------------------------------------------------------------------------
(* The methods that the policy, or else Inspect, allows; those that the    *)
(* session can make headers for; and those a caller's wish leaves.         *)
Methods(f) ==
  IF Policy(f) = "required" THEN Required[target[f]] ELSE Advertised[target[f]]
Usable(f) == Methods(f) \intersect Advertised[target[f]]
Wished(f, m) == option[f].grant \in {None, m}
Stored(f) == {m \in held[target[f]] \intersect Usable(f) : Wished(f, m)}

(* authenticationHeaders: a stored credential, or else an assertion.       *)
PresentableMutant(f) == IF Stored(f) # {} THEN Stored(f) ELSE Usable(f)
Presentable(f) ==
  IF Stored(f) # {} \/ option[f].pinned \/ option[f].grant # None THEN Stored(f)
  ELSE {Jwt} \intersect Usable(f)
Grantable(f) == {m \in Methods(f) \ {Jwt} : Wished(f, m)}

(* Headers are made.  If that fails, for want of a credential or otherwise,*)
(* one is asked for, unless the caller named the credential to use.        *)
Choose(f) ==
  /\ stage[f] = "choose"
  /\ option[f].grant # None => option[f].grant \in Methods(f)
  /\ \/ \E m \in Presentable(f) : method' = [method EXCEPT ![f] = m] /\ Go(f, "send")
     \/ /\ ~option[f].pinned
        /\ \E m \in Grantable(f) : method' = [method EXCEPT ![f] = m] /\ Go(f, "grant")
  /\ UNCHANGED <<target, redirects, demand, policy, option, held, history, docVars>>

(* The Grant succeeds; its credential is of use if Inspect advertises the  *)
(* method.                                                                 *)
Grant(f) ==
  /\ stage[f] = "grant"
  /\ held' = [held EXCEPT ![target[f]] = @ \union {method[f]}]
  /\ IF method[f] \in Usable(f) THEN Go(f, "send") /\ Keep(f) /\ UNCHANGED history
     ELSE End(f)
  /\ UNCHANGED docVars

(* The authenticated request; the caller's own header fields only go home. *)
Fields(f) == IF target[f] = Home[f] THEN "all" ELSE "none"
Authenticate(f) ==
  /\ stage[f] = "send"
  /\ Go(f, "sent")
  /\ Send(f, Fields(f), method[f])
  /\ Keep(f) /\ UNCHANGED <<held, challenger, strayed, began, docVars>>
Answered(f) ==
  /\ stage[f] = "sent"
  /\ (\E o \in Origins : Redirected(f, o)) \/ End(f)
  /\ UNCHANGED <<held, docVars>>

(* An error, a refused redirect or challenge, no method to use, the        *)
(* timeout.  It cannot end a call that waits for the policy: the signal    *)
(* ends the fetch of the document (Docs!Fail), not a joined flight.        *)
Abort(f) ==
  /\ stage[f] \notin {"idle", "done", "looking", "refreshing"}
  /\ End(f)
  /\ UNCHANGED <<held, docVars>>

CallSteps(f) ==
  \/ LookUp(f) \/ LookedUp(f) \/ Probe(f) \/ SkipProbe(f) \/ ProbeAnswered(f)
  \/ Revalidate(f) \/ Revalidated(f) \/ Choose(f) \/ Grant(f) \/ Authenticate(f)
  \/ Answered(f) \/ Abort(f)
DocSteps(r) == Docs!Work(r) /\ UNCHANGED <<callVars, held, spent, history>>
(* Another reader of the cache, once.                                      *)
OtherSteps(q) ==
  /\ \/ /\ q \notin spent /\ spent' = spent \union {q}
        /\ \E k \in OtherReads : Docs!Read(q, k[1], k[2])
     \/ Docs!Release(q) /\ UNCHANGED spent
  /\ UNCHANGED <<callVars, held, history>>
Web == Docs!Web /\ UNCHANGED <<callVars, held, spent, history>>

Next ==
  \/ \E f \in Fetches : (CallSteps(f) \/ \E opt \in Options : Begin(f, opt)) /\ UNCHANGED spent
  \/ \E r \in Readers : DocSteps(r)
  \/ \E q \in Others : OtherSteps(q)
  \/ Web

Spec == Init /\ [][Next]_vars

-----------------------------------------------------------------------------
Stages == {"idle", "look", "looking", "ready", "probing", "challenged", "refreshing",
           "choose", "grant", "send", "sent", "done"}
GrantTypes == (UNION {Advertised[o] \union Required[o] : o \in Origins}) \ {Jwt}
Requests ==
  [to : Origins, fields : {"none", "plain", "all"}, method : GrantTypes \union {Jwt, None}]
TypeOK ==
  /\ Docs!TypeOK
  /\ stage \in [Fetches -> Stages]
  /\ target \in [Fetches -> Origins]
  /\ redirects \in [Fetches -> 0..MaxRedirects]
  /\ demand \in [Fetches -> BOOLEAN]
  /\ policy \in [Fetches -> Docs!Records \union {None}]
  /\ option \in [Fetches -> Options \union {None}]
  /\ method \in [Fetches -> GrantTypes \union {Jwt, None}]
  /\ held \in [Origins -> SUBSET GrantTypes]
  /\ challenger \in [Fetches -> Origins \union {None}]
  /\ strayed \in [Fetches -> BOOLEAN] /\ began \in [Fetches -> Nat]
  /\ sent \in [Fetches -> Requests \union {None}] /\ spent \subseteq Others

(* A request that authenticates was invited: its target has challenged     *)
(* since the last redirect, or the call has never left the origin it was   *)
(* given, and the document that says "required" was on the web less than   *)
(* MaxAge before it was looked up (or another URL's entity tag matched).   *)
Recent(f) ==
  policy[f].doc.url = policy[f].url => policy[f].served + MaxAge > began[f]
AuthenticatesByInvitation ==
  \A f \in Fetches :
    sent[f] # None /\ sent[f].method # None =>
      \/ challenger[f] = sent[f].to
      \/ /\ ~strayed[f]
         /\ policy[f] # None /\ Policy(f) = "required" /\ Recent(f)

(* The ages by which cached policies are trusted are true: no document that*)
(* is cached was last on the web before the time it is dated with, though  *)
(* flights of one URL overtake each other and redirects lead from one URL  *)
(* to another.                                                             *)
AgeIsHonest == Docs!AgeIsHonest

(* The caller's own header fields are never sent to another origin, nor    *)
(* with a probe after another origin was visited, though its HTTP method   *)
(* and body are; and a request authenticates with a method that its target *)
(* advertises, the one that the caller asked for if it asked for one.      *)
RequestsCarryTheirOwn ==
  \A f \in Fetches :
    sent[f] # None =>
      /\ sent[f].fields # "none" => sent[f].to = Home[f]
      /\ sent[f].fields = "plain" => ~strayed[f]
      /\ sent[f].method # None => /\ sent[f].method \in Advertised[sent[f].to]
                                  /\ Wished(f, sent[f].method)
=============================================================================

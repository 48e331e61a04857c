---------------------------- MODULE PendingSigning ----------------------------
(***************************************************************************)
(* Signing that has to wait for an authorization: signClientAssertion with *)
(* a pendingSignResolver and the delegated signer of the Agent             *)
(* (packages/agent/src/index.ts) against sign and its idempotency store at *)
(* the Platform (packages/platform/src/index.ts), whose signHandler        *)
(* answers "pending" until the owner has approved.                         *)
(*                                                                         *)
(* A callback of the idempotency store is one step here: PlatformIdentities*)
(* has its steps.  The resolver is the one of the Agent's README: it calls *)
(* continueSign until it is completed, and it may also try again after an  *)
(* answer was lost.                                                        *)
(***************************************************************************)
EXTENDS Naturals, FiniteSets

CONSTANTS
  Signings, None,
  Keys,      \* random idempotency keys
  Retention  \* ticks that a record of the idempotency store is kept

ASSUME RetentionAssumption == Retention \in Nat \ {0}

VARIABLES
  approved,  \* the signings that their owner has approved
  record,    \* Platform: record[k] is a body with the ticks it is still kept
  stage,     \* stage[s]: where the call of signClientAssertion is
  key,       \* key[s]: the key of its present stage
  wire,      \* wire[s]: its request on the way, or the answer to it
  strays,    \* requests that are on their way but not waited for any more
  used,      \* the random keys drawn so far
  signatures,\* history: the assertions that the Platform signed for s, 2 for more than one
  expired,   \* history: the keys of which a record has expired
  asked      \* history: was s approved when its latest request was sent?

agent == <<stage, key, wire, strays, used, asked>>
platform == <<record, signatures, expired>>
vars == <<approved, agent, platform>>

Bodies == {"pending", "assertion"}
Waiting == {"asking", "continuing"}
Records == [body : Bodies, left : 0..Retention]

ASSUME NoneAssumption == None \notin Keys \union Bodies \union {"request"} \union Records

Init ==
  /\ approved = {}
  /\ record = [k \in Keys |-> None]
  /\ stage = [s \in Signings |-> "idle"]
  /\ key = [s \in Signings |-> None]
  /\ wire = [s \in Signings |-> None]
  /\ strays = {} /\ used = {}
  /\ signatures = [s \in Signings |-> 0]
  /\ expired = {}
  /\ asked = [s \in Signings |-> FALSE]

-----------------------------------------------------------------------------
Post(s, k) ==
  /\ wire' = [wire EXCEPT ![s] = "request"]
  /\ key' = [key EXCEPT ![s] = k]
  /\ asked' = [asked EXCEPT ![s] = s \in approved]

(* The first Sign request, under a random key.                             *)
Ask(s) ==
  /\ stage[s] = "idle"
  /\ stage' = [stage EXCEPT ![s] = "asking"]
  /\ \E k \in Keys \ used : Post(s, k) /\ used' = used \union {k}
  /\ UNCHANGED <<approved, platform, strays>>

(* continueSign: every call of it uses the key drawn for the completion.   *)
ContinueMutant(s) ==
  /\ stage[s] = "resolving"
  /\ stage' = [stage EXCEPT ![s] = "continuing"]
  /\ \E k \in Keys \ used : Post(s, k) /\ used' = used \union {k}
  /\ UNCHANGED <<approved, platform, strays>>
Continue(s) ==
  /\ stage[s] = "resolving"
  /\ stage' = [stage EXCEPT ![s] = "continuing"]
  /\ Post(s, key[s])
  /\ UNCHANGED <<approved, platform, strays, used>>

(* The Platform handles a request: it repeats the response that is on      *)
(* record, or runs the handler and records its answer, whatever it is.     *)
KeptMutant(k) == record[k] # None
Kept(k) == record[k] # None /\ record[k].left > 0
ExecutedMutant(s) == IF s \in approved THEN "completed" ELSE "pending"
Executed(s) == IF s \in approved THEN "assertion" ELSE "pending"
Sign(s, k) ==
  IF Kept(k) THEN UNCHANGED platform
  ELSE /\ record' = [record EXCEPT ![k] = [body |-> Executed(s), left |-> Retention]]
       /\ signatures' = [signatures EXCEPT ![s] =
                           IF Executed(s) # "assertion" THEN @ ELSE IF @ = 0 THEN 1 ELSE 2]
       /\ UNCHANGED expired

PlatformSigns(s) ==
  /\ wire[s] = "request"
  /\ Sign(s, key[s])
  /\ wire' = [wire EXCEPT ![s] = record'[key[s]].body]
  /\ UNCHANGED <<approved, stage, key, strays, used, asked>>
StrayArrives(s, k) ==
  /\ <<s, k>> \in strays
  /\ strays' = strays \ {<<s, k>>}
  /\ Sign(s, k)
  /\ UNCHANGED <<approved, stage, key, wire, used, asked>>

(* The answer arrives.  A first one that is pending draws the key of the   *)
(* completion and hands over to the resolver.                              *)
Take(s) ==
  /\ stage[s] \in Waiting /\ wire[s] \in Bodies
  /\ wire' = [wire EXCEPT ![s] = None]
  /\ \/ /\ wire[s] = "assertion"
        /\ stage' = [stage EXCEPT ![s] = "signed"]
        /\ UNCHANGED <<key, used>>
     \/ /\ wire[s] = "pending" /\ stage[s] = "asking"
        /\ stage' = [stage EXCEPT ![s] = "resolving"]
        /\ \E k \in Keys \ used : key' = [key EXCEPT ![s] = k] /\ used' = used \union {k}
     \/ /\ wire[s] = "pending" /\ stage[s] = "continuing"
        /\ stage' = [stage EXCEPT ![s] = "resolving"]
        /\ UNCHANGED <<key, used>>
  /\ UNCHANGED <<approved, platform, strays, asked>>

(* The request or its answer is lost, or the caller aborts: signing fails, *)
(* or the resolver tries again.                                            *)
Lose(s) ==
  /\ stage[s] \in Waiting
  /\ strays' = IF wire[s] = "request" THEN strays \union {<<s, key[s]>>} ELSE strays
  /\ wire' = [wire EXCEPT ![s] = None]
  /\ \/ stage' = [stage EXCEPT ![s] = "failed"]
     \/ stage[s] = "continuing" /\ stage' = [stage EXCEPT ![s] = "resolving"]
  /\ UNCHANGED <<approved, platform, key, used, asked>>

-----------------------------------------------------------------------------
Approve(s) ==
  /\ s \notin approved
  /\ approved' = approved \union {s}
  /\ UNCHANGED <<agent, platform>>

(* Time passes for the records of the Platform.                            *)
Tick ==
  /\ \E k \in Keys : Kept(k)
  /\ record' = [k \in Keys |->
       IF record[k] # None /\ record[k].left > 0 THEN [record[k] EXCEPT !.left = @ - 1]
       ELSE record[k]]
  /\ expired' = expired \union {k \in Keys : record[k] # None /\ record[k].left <= 1}
  /\ UNCHANGED <<approved, agent, signatures>>

AgentSteps(s) == Ask(s) \/ Continue(s) \/ Take(s) \/ Lose(s)
Next ==
  \/ \E s \in Signings : AgentSteps(s) \/ PlatformSigns(s) \/ Approve(s)
  \/ \E s \in Signings, k \in Keys : StrayArrives(s, k)
  \/ Tick

(* The resolver keeps polling, requests and answers are not lost forever,  *)
(* and time passes.                                                        *)
Fairness ==
  /\ WF_vars(Tick)
  /\ \A s \in Signings :
       WF_vars(Continue(s)) /\ SF_vars(PlatformSigns(s)) /\ SF_vars(Take(s))

Spec == Init /\ [][Next]_vars /\ Fairness

-----------------------------------------------------------------------------
TypeOK ==
  /\ approved \subseteq Signings /\ used \subseteq Keys /\ expired \subseteq Keys
  /\ record \in [Keys -> Records \union {None}]
  /\ stage \in [Signings -> Waiting \union {"idle", "resolving", "signed", "failed"}]
  /\ key \in [Signings -> Keys \union {None}]
  /\ wire \in [Signings -> Bodies \union {"request", None}]
  /\ strays \subseteq Signings \X Keys
  /\ signatures \in [Signings -> 0..2]
  /\ asked \in [Signings -> BOOLEAN]

(* However often continueSign is called and answers are lost or late, one  *)
(* signing gets a second assertion signed only when the Platform no longer *)
(* keeps its record of the first.                                          *)
SignedOnce == \A s \in Signings : signatures[s] > 1 => key[s] \in expired

(* The resolver's loop ends: a signing that has been approved is signed or *)
(* fails, if only after a recorded "pending" has expired.                  *)
ApprovedSigningEnds ==
  \A s \in Signings :
    s \in approved /\ stage[s] = "resolving" ~> stage[s] \in {"signed", "failed"}

(* The Agent's tests and README: continueSign, called again under the same *)
(* key, is completed once the signing has been approved.                   *)
ApprovedPollCompletes ==
  \A s \in Signings : stage[s] = "continuing" /\ asked[s] => wire[s] # "pending"
=============================================================================

------------------------- MODULE CommandIdempotency -------------------------
(***************************************************************************)
(* The Service's in-memory command idempotency store                       *)
(* (packages/service/src/index.ts, createInMemoryCommandIdempotencyStore). *)
(* A call looks its key up; when another call's body is running it awaits  *)
(* that call's promise and looks again; else it runs its own body, then    *)
(* records the response, or, when the body throws, nothing.                *)
(***************************************************************************)
EXTENDS Naturals

CONSTANTS Calls, Keys, Materials, Responses, None

ASSUME NoneIsNoValue ==
  /\ None \notin Calls
  /\ None \notin [key : Keys, material : Materials]
  /\ None \notin [material : Materials, response : Responses]
  /\ \A s \in {"created", "replayed", "conflict", "threw"} :
       \A r \in Responses \union {None} : None # [state |-> s, response |-> r]

VARIABLES
  input,    \* input[c]: the key and the material of call c
  record,   \* the map `idempotency`: record[k], or None
  answer,   \* answer[c]: how executeIdempotentCommand settled for c
  pending,  \* the map `pending`: pending[k] is the call whose promise it holds
  pc,       \* pc[c]: where call c is
  waitsOn   \* waitsOn[c]: the call whose promise c awaits

vars == <<input, record, answer, pending, pc, waitsOn>>

Inputs == [key : Keys, material : Materials]
Records == [material : Materials, response : Responses]
Answers == [state : {"created", "replayed", "conflict", "threw"},
            response : Responses \union {None}]

Init ==
  /\ input = [c \in Calls |-> None]
  /\ record = [k \in Keys |-> None]
  /\ answer = [c \in Calls |-> None]
  /\ pending = [k \in Keys |-> None]
  /\ pc = [c \in Calls |-> "idle"]
  /\ waitsOn = [c \in Calls |-> None]

-----------------------------------------------------------------------------
KeyOf(c) == input[c].key

Settle(c, s, r) ==
  /\ pc' = [pc EXCEPT ![c] = "done"]
  /\ answer' = [answer EXCEPT ![c] = [state |-> s, response |-> r]]

(* Does a call carry the command and request hash a record was made with?  *)
Matches(rec, in) == rec.material = in.material

(* One turn of the store's loop: replay or conflict on a record, wait on a *)
(* running body, or leave the loop and run.                                *)
LookUp(c) ==
  LET k == KeyOf(c) IN
  /\ \/ /\ record[k] # None
        /\ IF Matches(record[k], input[c])
             THEN Settle(c, "replayed", record[k].response)
             ELSE Settle(c, "conflict", None)
        /\ UNCHANGED <<pending, waitsOn>>
     \/ /\ record[k] = None /\ pending[k] # None
        /\ pc' = [pc EXCEPT ![c] = "waiting"]
        /\ waitsOn' = [waitsOn EXCEPT ![c] = pending[k]]
        /\ UNCHANGED <<answer, pending>>
     \/ /\ record[k] = None /\ pending[k] = None
        /\ pc' = [pc EXCEPT ![c] = "running"]
        /\ pending' = [pending EXCEPT ![k] = c]
        /\ UNCHANGED <<answer, waitsOn>>
  /\ UNCHANGED <<input, record>>

(* The request reaches its handler.                                        *)
Arrive(c, in) ==
  /\ pc[c] = "idle"
  /\ pc' = [pc EXCEPT ![c] = "arrived"]
  /\ input' = [input EXCEPT ![c] = in]
  /\ UNCHANGED <<record, answer, pending, waitsOn>>

(* withIdempotency calls the store.                                        *)
Enter(c) == pc[c] = "arrived" /\ LookUp(c)

(* The awaited promise has resolved; the loop turns again.  Another call   *)
(* may have become the runner in between.                                  *)
WakeMutant(c) ==
  /\ pc[c] = "waiting"
  /\ pc[waitsOn[c]] # "running"
  /\ pc' = [pc EXCEPT ![c] = "running"]
  /\ pending' = [pending EXCEPT ![KeyOf(c)] = c]
  /\ UNCHANGED <<input, record, answer, waitsOn>>
Wake(c) ==
  /\ pc[c] = "waiting"
  /\ pc[waitsOn[c]] # "running"
  /\ LookUp(c)

(* What the `finally` clause does: the key is free, waiters are released.  *)
Release(k) == pending' = [pending EXCEPT ![k] = None]

(* The body resolves: its response, whatever its status, is recorded.      *)
SucceedMutant(c, resp) ==
  /\ pc[c] = "running"
  /\ Settle(c, "created", resp)
  /\ Release(KeyOf(c))
  /\ UNCHANGED <<input, record, waitsOn>>
Succeed(c, resp) ==
  /\ pc[c] = "running"
  /\ record' = [record EXCEPT ![KeyOf(c)] =
                  [material |-> input[c].material, response |-> resp]]
  /\ Settle(c, "created", resp)
  /\ Release(KeyOf(c))
  /\ UNCHANGED <<input, waitsOn>>

(* The body throws: nothing is recorded, the caller sees the exception.    *)
ThrowMutant(c) ==
  /\ pc[c] = "running"
  /\ Settle(c, "threw", None)
  /\ UNCHANGED <<input, record, waitsOn, pending>>
Throw(c) ==
  /\ pc[c] = "running"
  /\ Settle(c, "threw", None)
  /\ Release(KeyOf(c))
  /\ UNCHANGED <<input, record, waitsOn>>

Finish(c) == Throw(c) \/ \E resp \in Responses : Succeed(c, resp)

Next ==
  \E c \in Calls :
    \/ \E in \in Inputs : Arrive(c, in)
    \/ Enter(c)
    \/ Wake(c)
    \/ Finish(c)

(* The event loop runs every resumed call, and command bodies settle: the  *)
(* SDK's own bodies await only their stores and handlers.                  *)
Fairness ==
  \A c \in Calls : WF_vars(Enter(c)) /\ WF_vars(Wake(c)) /\ WF_vars(Finish(c))

Spec == Init /\ [][Next]_vars
FairSpec == Spec /\ Fairness

-----------------------------------------------------------------------------
TypeOK ==
  /\ input \in [Calls -> Inputs \union {None}]
  /\ record \in [Keys -> Records \union {None}]
  /\ answer \in [Calls -> Answers \union {None}]
  /\ pending \in [Keys -> Calls \union {None}]
  /\ pc \in [Calls -> {"idle", "arrived", "waiting", "running", "done"}]
  /\ waitsOn \in [Calls -> Calls \union {None}]
  /\ \A c \in Calls : pc[c] # "idle" => input[c] \in Inputs

SameKey(c, d) == pc[c] # "idle" /\ pc[d] # "idle" /\ KeyOf(c) = KeyOf(d)

(* Bodies of one key never overlap, and none runs once a response is       *)
(* recorded for its key.                                                   *)
OneRunner ==
  \A c \in Calls :
    pc[c] = "running" =>
      /\ record[KeyOf(c)] = None
      /\ \A d \in Calls : SameKey(c, d) /\ pc[d] = "running" => c = d

(* At most one call creates the response of a key, and every answer given  *)
(* under the key agrees with it: a replay repeats that response for the    *)
(* same material, a conflict is about other material.                      *)
AnswersAgree ==
  \A c, d \in Calls :
    SameKey(c, d) /\ pc[c] = "done" /\ pc[d] = "done"
      /\ answer[c].state = "created" =>
         /\ answer[d].state = "created" => c = d
         /\ answer[d].state = "replayed" =>
              /\ answer[d].response = answer[c].response
              /\ input[d].material = input[c].material
         /\ answer[d].state = "conflict" => input[d].material # input[c].material

(* Every call that arrives is answered, however many runners before it     *)
(* threw: no waiter is left behind on a promise nobody resolves.           *)
EveryCallAnswered ==
  \A c \in Calls : pc[c] = "arrived" ~> pc[c] = "done"

(* The store implements the write-once register of OnceCommand.            *)
Once == INSTANCE OnceCommand
ImplementsOnceCommand == Once!Spec
=============================================================================

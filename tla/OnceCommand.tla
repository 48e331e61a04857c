----------------------------- MODULE OnceCommand -----------------------------
(***************************************************************************)
(* What command idempotency promises the callers of Enroll, Grant and      *)
(* Revoke: a key answers like a register written once.  Each call takes    *)
(* effect in one step; the first command that completes fixes the response *)
(* of its key, matching calls get that response, others get a conflict.    *)
(* CommandIdempotency shows how the Service's store keeps the promise.     *)
(***************************************************************************)
CONSTANTS
  Calls,      \* HTTP requests
  Keys,       \* pairs of an Agent DID and an idempotency key
  Materials,  \* pairs of a command and the hash of its request
  Responses,  \* what a command body may answer
  None

VARIABLES
  input,   \* input[c]: the key and the material of call c
  record,  \* record[k]: the material and the response k is bound to
  answer   \* answer[c]: how c was answered

abstractVars == <<input, record, answer>>

Inputs == [key : Keys, material : Materials]
Records == [material : Materials, response : Responses]
Answered(s, r) == [state |-> s, response |-> r]

Init ==
  /\ input = [c \in Calls |-> None]
  /\ record = [k \in Keys |-> None]
  /\ answer = [c \in Calls |-> None]

Open(c) == input[c] # None /\ answer[c] = None
RecordOf(c) == record[input[c].key]

Call(c, in) ==
  /\ input[c] = None
  /\ input' = [input EXCEPT ![c] = in]
  /\ UNCHANGED <<record, answer>>

Create(c, resp) ==
  /\ Open(c) /\ RecordOf(c) = None
  /\ record' = [record EXCEPT ![input[c].key] =
                  [material |-> input[c].material, response |-> resp]]
  /\ answer' = [answer EXCEPT ![c] = Answered("created", resp)]
  /\ UNCHANGED input

Replay(c) ==
  /\ Open(c) /\ RecordOf(c) # None /\ RecordOf(c).material = input[c].material
  /\ answer' = [answer EXCEPT ![c] = Answered("replayed", RecordOf(c).response)]
  /\ UNCHANGED <<input, record>>

Conflict(c) ==
  /\ Open(c) /\ RecordOf(c) # None /\ RecordOf(c).material # input[c].material
  /\ answer' = [answer EXCEPT ![c] = Answered("conflict", None)]
  /\ UNCHANGED <<input, record>>

(* A command that fails leaves its key free.                               *)
Fail(c) ==
  /\ Open(c) /\ RecordOf(c) = None
  /\ answer' = [answer EXCEPT ![c] = Answered("threw", None)]
  /\ UNCHANGED <<input, record>>

Next ==
  \E c \in Calls :
    \/ \E in \in Inputs : Call(c, in)
    \/ \E resp \in Responses : Create(c, resp)
    \/ Replay(c) \/ Conflict(c) \/ Fail(c)

Spec == Init /\ [][Next]_abstractVars
=============================================================================

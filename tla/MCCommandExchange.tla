------------------------- MODULE MCCommandExchange -------------------------
(* CommandExchange for TLC: a Service with a required claim, two required  *)
(* documents and a grant type; and without them, the type's handler gone.  *)
EXTENDS CommandExchange, TLC

CONSTANTS email, terms, privacy, apikey

MCClaims == {email}
MCIds == {terms, privacy}
MCTypes == {apikey}
List(S) == [n \in Names |-> IF n \in S THEN 1 ELSE 0]

MCDeployments ==
  {[claims |-> List({email}), documents |-> MCIds, required |-> MCIds,
    types |-> MCTypes, handled |-> {apikey}, single |-> {apikey}],
   [claims |-> Empty, documents |-> None, required |-> {},
    types |-> MCTypes, handled |-> {}, single |-> {}]}

Decision(status) ==
  [status |-> status, update |-> TRUE, owner |-> None, requirements |-> None, verification |-> None]
MCDecisions ==
  {Decision("active"), Decision("rejected"),
   [Decision("pending") EXCEPT !.update = FALSE, !.owner = TRUE, !.requirements = List({email}),
                               !.verification = List({email})]}

Enroll(key, claims, declared) ==
  [command |-> "enroll", key |-> key, claims |-> claims, declared |-> declared]
MCRequests ==
  {Enroll(k, {email}, d) : k \in Keys, d \in {{terms}, None}}
  \union {Enroll(None, {}, {privacy}), Enroll(None, {}, None)}
  \union {[command |-> "status", key |-> None]}
  \union {[command |-> "grant", key |-> k, type |-> apikey] : k \in Optional(Keys)}
  \union {[command |-> "revoke", key |-> k, type |-> apikey, single |-> TRUE] : k \in Keys}
  \union {[command |-> "revoke", key |-> None, type |-> None, single |-> FALSE]}

(* Why ListsAreSendable is assumed: a policy that says "service_documents" *)
(* is pending, or a claim configured twice, costs the caller the problem.  *)
ASSUME UnfitListsAreLost ==
  LET pending == [claims |-> {}, acknowledged |-> {}, demanded |-> {}, status |-> "pending",
                  owner |-> FALSE, requirements |-> List({Documents}), verification |-> Empty]
  IN /\ Read(VerificationPending(pending), [command |-> "grant"]) = "bare"
     /\ Read(RequirementsUnmet([Empty EXCEPT ![email] = 2], {}), [command |-> "enroll"]) = "bare"

Interchangeable == Permutations(Calls)
=============================================================================

---------------------------- MODULE MCAgentSession ----------------------------
EXTENDS AgentSession, TLC

(* One call that learns or changes the account, one Grant, and one more    *)
(* that may be of either kind or undo it.                                  *)
CONSTANTS c1, c2, c3
MCAsked ==
  c1 :> {"enroll", "status"} @@ c2 :> {"grant"}
    @@ c3 :> {"identity", "grant", "revoke", "forget"}

MCSymmetry ==
  Permutations(Sessions) \union Permutations(Ids) \union Permutations(Creds) \union Permutations(Types)
=============================================================================

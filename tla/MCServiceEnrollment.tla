------------------------ MODULE MCServiceEnrollment ------------------------
EXTENDS ServiceEnrollment, TLC

MCDecisions ==
  {[status |-> "active", update |-> TRUE], [status |-> "active", update |-> FALSE],
   [status |-> "rejected", update |-> TRUE]}

(* Nothing; the required document with one that the catalog dropped.       *)
MCDeclarations == {{}, Docs \union {"retired"}}

(* Calls and keys are interchangeable in every property checked with it.   *)
MCSymmetry == Permutations(Calls) \union Permutations(Keys)
=============================================================================

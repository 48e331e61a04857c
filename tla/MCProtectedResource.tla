------------------------ MODULE MCProtectedResource ------------------------
EXTENDS ProtectedResource, Integers, Sequences, FiniteSets, TLC

CONSTANTS f1, home, other, x, y, Malformed

MCHome == [f \in Fetches |-> home]

(* What the documents say is what interpretAepOpenApiOperation makes of    *)
(* them: that of home says "required", until it changes; the other way     *)
(* round elsewhere, where it is all in the operation.                      *)
Policies == INSTANCE OpenApiPolicy WITH Variables <- {x, y}

Schemes == "key" :> "api-key" @@ "login" :> "basic" @@ "assertion" :> Jwt
Alternatives == home :> <<{"key"}, {"key", "login"}, {"login"}>> @@ other :> <<{"login"}>>
Document(o, required) ==
  [schemes |-> Schemes,
   security |-> IF o = home /\ required THEN Alternatives[o] ELSE <<>>,
   paths |-> <<"a">> :> [security |-> IF o = home THEN None ELSE Malformed,
                         operations |-> "get" :> IF o # home /\ required
                                                 THEN Alternatives[o]
                                                 ELSE IF o = home THEN None ELSE <<{}>>]]
Request == [path |-> <<"a", "">>, method |-> "get", mode |-> "equivalent"]
Interpretations ==
  [o \in Origins, required \in BOOLEAN |-> Policies!Interpret(Document(o, required), Request)]
MCPolicyOf(doc) == Interpretations[doc.url, (doc.url = home) <=> (doc.version = 1)].state

(* A caller with no wish, with one for a grant type, and with a credential *)
(* of its own choice.                                                      *)
MCOptions ==
  {[grant |-> None, pinned |-> FALSE], [grant |-> "api-key", pinned |-> FALSE],
   [grant |-> None, pinned |-> TRUE]}

(* Someone else reads home's document while the call does.                 *)
MCOtherReads == {<<home, FALSE>>}

(* The policy may list a method that Inspect does not.                     *)
MCAdvertised == home :> {Jwt, "api-key"} @@ other :> {"basic"}
MCRequired ==
  [o \in Origins |-> LET listed == Interpretations[o, TRUE].methods
                     IN  {listed[i] : i \in DOMAIN listed}]

-----------------------------------------------------------------------------
(* interpretAepOpenApiOperation by itself, over paths of two segments.     *)
Paths == {<<"">>} \union UNION {[1..n -> {"a", "b"}] : n \in 1..2}
           \union {<<s, "">> : s \in {"a", "b"}} \union {<<s, t, "">> : s, t \in {"a", "b"}}
Templates ==
  LET segments == {"a", x, y} IN
  {<<"">>} \union {<<s>> : s \in segments} \union {<<s, "">> : s \in segments}
    \union {<<s, t>> : s, t \in segments} \union {<<s, t, "">> : s, t \in segments}
Modes == {"strict", "equivalent"}
Accepted(template) == {p \in Paths : Policies!PathMatches(template, p, "strict")}

(* Sorting by compareTemplateSpecificity is well defined, whatever the     *)
(* order of a document's paths: it compares by a total preorder.           *)
ASSUME SpecificityIsAPreorder ==
  \A t, u \in Templates :
    /\ Policies!Compare(t, u) = -Policies!Compare(u, t)
    /\ \A v \in Templates :
         Policies!Compare(t, u) <= 0 /\ Policies!Compare(u, v) <= 0
           => Policies!Compare(t, v) <= 0

(* A template that accepts fewer paths goes first, and those that tie at a *)
(* path are the same but for names of variables and a trailing slash.      *)
ASSUME ConcreteFirst ==
  \A t, u \in Templates :
    Accepted(t) # {} /\ Accepted(t) \subseteq Accepted(u) /\ Accepted(t) # Accepted(u)
      => Policies!Compare(t, u) = -1

Shape(template) ==
  [i \in DOMAIN template |-> IF template[i] \in {x, y} THEN x ELSE template[i]]
ASSUME TiesAreOneTemplate ==
  \A t, u \in Templates, p \in Paths, mode \in Modes :
    /\ Policies!PathMatches(t, p, mode) /\ Policies!PathMatches(u, p, mode)
    /\ Policies!Compare(t, u) = 0
    => Shape(Policies!Normalized(t, mode)) = Shape(Policies!Normalized(u, mode))

(* A trailing slash makes no difference when the Service says so; when it  *)
(* says otherwise, a path that would have matched does at the suggestion.  *)
ASSUME SlashesAsAdvertised ==
  \A t \in Templates, p \in Paths :
    LET again == Policies!SlashSuggestion(p) IN
    /\ Policies!PathMatches(t, p, "equivalent") = Policies!PathMatches(t, again, "equivalent")
    /\ Policies!PathMatches(t, p, "equivalent") =
         (Policies!PathMatches(t, p, "strict") \/ Policies!PathMatches(t, again, "strict"))

(* The order of the alternatives changes neither the state nor the methods *)
(* of a policy, and no method is listed twice.                             *)
ASSUME AlternativesCommute ==
  \A security \in UNION {[1..n -> SUBSET {"key", "login", "none"}] : n \in 0..3} :
    LET there  == Policies!Interpreted(Schemes, security)
        back   == Policies!Interpreted(Schemes, Policies!Reverse(security))
        methods(p) == {p.methods[i] : i \in DOMAIN p.methods}
    IN  /\ there.state = back.state /\ methods(there) = methods(back)
        /\ Cardinality(methods(there)) = Len(there.methods)
        /\ there.state = "required" <=> there.methods # <<>>
=============================================================================

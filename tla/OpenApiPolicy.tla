---------------------------- MODULE OpenApiPolicy ----------------------------
(***************************************************************************)
(* interpretAepOpenApiOperation of the Agent                               *)
(* (packages/agent/src/public-documents.ts): what an OpenAPI 3.1 document  *)
(* says about authentication at a method of a path.                        *)
(*                                                                         *)
(* A path is the sequence of what stands between its slashes: "/" is       *)
(* <<"">>, "/a/" is <<"a", "">>.  A template has an element of Variables   *)
(* where a whole segment is in braces; a segment that is in braces only in *)
(* part is matched as it is written.  A document is a record of            *)
(*   paths    : template -> item, an item being                            *)
(*              [operations : method -> security, security : security],    *)
(*   security : security, and                                              *)
(*   schemes  : scheme name -> method, for the names with the extension    *)
(*              x-aep-authentication-method,                               *)
(* a security being None, Malformed (no array), or a sequence of sets of   *)
(* scheme names, the alternatives.  A request is a record of its path, its *)
(* method and the mode in which the Service treats a trailing slash.       *)
(***************************************************************************)
EXTENDS Integers, Sequences, SequencesExt

CONSTANTS Variables, None, Malformed

-----------------------------------------------------------------------------
(* pathMatches                                                             *)
Normalized(path, mode) ==
  IF mode = "equivalent" /\ path # <<"">> /\ Last(path) = "" THEN Front(path) ELSE path

PathMatches(template, path, mode) ==
  LET pattern == Normalized(template, mode)
      target  == Normalized(path, mode)
  IN  /\ Len(pattern) = Len(target)
      /\ \A i \in DOMAIN pattern :
           IF pattern[i] \in Variables THEN target[i] # "" ELSE pattern[i] = target[i]

(* compareTemplateSpecificity: the first place where one has a literal and *)
(* the other a variable, or nothing, decides.                              *)
Segments(template) == SelectSeq(template, LAMBDA s : s # "")
LiteralAt(segments, i) == i \in DOMAIN segments /\ segments[i] \notin Variables

Compare(left, right) ==
  LET l == Segments(left)
      r == Segments(right)
      differ == {i \in DOMAIN l \union DOMAIN r : LiteralAt(l, i) # LiteralAt(r, i)}
  IN  IF differ = {} THEN 0
      ELSE LET first == CHOOSE i \in differ : \A j \in differ : i <= j
           IN  IF LiteralAt(l, first) THEN -1 ELSE 1

(* The templates that match, and the one at the head of them once sorted:  *)
(* None when nothing matches or the two at the head compare as equal.      *)
Matches(document, request) ==
  {t \in DOMAIN document.paths :
     /\ PathMatches(t, request.path, request.mode)
     /\ request.method \in DOMAIN document.paths[t].operations}

Selected(document, request) ==
  LET matches == Matches(document, request)
      head    == {t \in matches : \A u \in matches : Compare(t, u) <= 0}
  IN  IF \E t \in matches : head = {t} THEN CHOOSE t \in matches : head = {t} ELSE None

(* What is proposed to a caller whose path matches nothing as it stands.   *)
SlashSuggestion(path) ==
  IF Last(path) # "" THEN Append(path, "")
  ELSE IF Len(path) = 1 THEN path ELSE Front(path)

-----------------------------------------------------------------------------
Fallback == [state |-> "fallback", methods |-> <<>>]
Public   == [state |-> "public", methods |-> <<>>]

(* The security of the operation, else of its item, else of the document.  *)
Security(document, template, method) ==
  LET item == document.paths[template] IN
  CASE item.operations[method] # None -> item.operations[method]
    [] item.operations[method] = None /\ item.security # None -> item.security
    [] OTHER -> document.security

(* An alternative of one scheme stands for its method; those of several,   *)
(* and of schemes without a method, are not for AEP.                       *)
MethodOf(schemes, alternative) ==
  {schemes[name] : name \in {n \in alternative : alternative = {n} /\ n \in DOMAIN schemes}}

Listed(schemes, security) ==
  FoldLeft(LAMBDA methods, alternative :
             methods \o SelectSeq(SetToSeq(MethodOf(schemes, alternative)),
                                  LAMBDA m : \A i \in DOMAIN methods : methods[i] # m),
           <<>>, security)

Interpreted(schemes, security) ==
  IF security \in {None, Malformed} THEN Fallback
  ELSE IF security = <<>> \/ \E i \in DOMAIN security : security[i] = {} THEN Public
  ELSE IF Listed(schemes, security) = <<>> THEN Fallback
  ELSE [state |-> "required", methods |-> Listed(schemes, security)]

(* interpretAepOpenApiOperation.                                           *)
Interpret(document, request) ==
  LET match == Selected(document, request) IN
  IF match = None THEN Fallback
  ELSE Interpreted(document.schemes, Security(document, match, request.method))
=============================================================================

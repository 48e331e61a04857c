------------------------ MODULE MCServiceCredentials ------------------------
EXTENDS ServiceCredentials, TLC

MCTypes == <<"api-key", "oauth-bearer">>

(* An empty store; one Agent's credentials of both grant types; and two    *)
(* Agents' credentials of one type, by chance with the same secret (or one   *)
(* credential alone, where both positions coincide).                       *)
MCStored(a, t, s, sc) ==
  [agent |-> a, type |-> t, secret |-> s, scope |-> sc, expires |-> MaxTime + 1, revoked |-> FALSE]
MCPairs ==
  {<<MCStored(a, "api-key", s, sc), MCStored(b, t, s, sc)>> :
     a \in Agents, b \in Agents, t \in Types, s \in Secrets, sc \in Scopes}
MCStores ==
  {[i \in Ids |-> None]} \union
  {[i \in Ids |-> IF i = j THEN p[1] ELSE IF i = k THEN p[2] ELSE None] :
     p \in MCPairs, j \in Ids, k \in Ids}

MCSymmetry ==
  Permutations(Calls) \union Permutations(Agents) \union Permutations(Ids)
    \union Permutations(Secrets)

-----------------------------------------------------------------------------
(* How credentials are presented, by itself: each field of a request holds *)
(* nothing, a Bearer or AEP presentation of some other credential, an      *)
(* unrelated scheme, or a bare value.                                      *)
Wire == INSTANCE Presentation WITH Unsendable <- {"line\nbreak"}, Commas <- {"s,t"}

WireMethods == <<Wire!Jwt, "api-key", "oauth-bearer", "basic">>
WireFields == {Wire!Standard, Wire!Dedicated, "x-api-key"}
WireValues == {<<>>} \union {<<[scheme |-> s, secret |-> "t"]>> : s \in {"AEP", "Bearer", "Payment", "none"}}
WireHeaders == [WireFields -> WireValues]
NoHeaders == [f \in WireFields |-> <<>>]
OneHeader == {[NoHeaders EXCEPT ![f] = v] : f \in WireFields, v \in WireValues}
WireCredentials ==
  {[method |-> WireMethods[i], secret |-> s, field |-> f, holder |-> "agent"] :
     i \in 1..4, s \in {"s", "s,t", "line\nbreak"}, f \in {"x-api-key", Wire!Standard, Wire!Dedicated}}
Sources(sent) ==
  {[form |-> form, lines |-> [f \in WireFields |-> IF sent[f] = <<>> THEN <<>> ELSE <<sent[f]>>]] :
     form \in {"headers", "strings"}}
Others == {[method |-> WireMethods[i], secret |-> "t", field |-> "x-api-key", holder |-> "other"] :
             i \in 1..4}

(* What an Agent presents is what the Service evaluates, whatever else the *)
(* caller put into the request, unless another field has a credential too; *)
(* in AEP-Authorization neither a comma nor an API key is understood.  And *)
(* a dedicated field is never passed over: beside a credential in          *)
(* Authorization, or one that is not understood, it is refused.            *)
Alone(sent, field) ==
  \A f \in WireFields \ {field} : sent[f] = <<>> \/ sent[f][1].scheme = "Payment"
Clashes(sent) == Wire!Parsed(sent[Wire!Standard], "standard") # None
ASSUME PresentedIsEvaluated ==
  \A c \in WireCredentials, carrier \in {"standard", "dedicated"},
     caller \in WireHeaders, additional \in OneHeader :
    LET sent == Wire!Authenticated(c, carrier, caller, additional)
        field == Wire!FieldOf(c, carrier)
        fits == field = Wire!Dedicated => c.method # "api-key" /\ c.secret # "s,t"
    IN  sent # None =>
          \A source \in Sources(sent) :
            LET answer == Wire!Authenticate(source, WireMethods, Others \union {c}) IN
            /\ fits /\ Alone(sent, field) => answer = Wire!Principal(c)
            /\ field = Wire!Dedicated /\ (~fits \/ Clashes(sent))
                 => answer = Wire!Refusal("not_recognized")

(* A probe is anonymous to a Service, but for an API key of the caller's.  *)
ASSUME ProbesAreAnonymous ==
  \A caller \in WireHeaders : caller["x-api-key"] = <<>> =>
    \A source \in Sources(Wire!Anonymous(caller)) :
      Wire!Authenticate(source, WireMethods, Others) = Wire!Refusal("authentication_required")

(* The Service's choice of a field is the one that core offers to others,  *)
(* and a dedicated field that is repeated is refused in every form.        *)
ASSUME SelectorsAgree ==
  \A headers \in WireHeaders : \A source \in Sources(headers) :
    LET here == Wire!Selected(source)
        there == Wire!SelectedByCore(source.lines)
    IN  /\ (here = None) <=> (there = None)
        /\ headers[Wire!Dedicated] # <<>> => here = there
ASSUME RepeatedIsRefused ==
  \A v, w \in WireValues \ {<<>>}, form \in {"headers", "strings", "arrays"} :
    LET lines == [NoHeaders EXCEPT ![Wire!Dedicated] = <<v, w>>] IN
    Wire!Selected([form |-> form, lines |-> lines]) = None /\ Wire!SelectedByCore(lines) = None

(* An Agent reads the challenge it was sent, alone or before another, if   *)
(* its Inspect URL is secure, and no challenge where another comes first.  *)
ASSUME ChallengesUnderstood ==
  \A inspect \in {"secure", "plain"}, reason \in {"not_recognized", "authentication_required"} :
    LET challenge == Wire!Challenge("did", inspect, reason)
        basic == <<[scheme |-> "Basic", params |-> <<<<"realm", "r">>>>]>>
        read(field) == Wire!Understood(field, {"secure"})
        meant == [serviceDid |-> "did", inspect |-> inspect, reason |-> reason]
    IN  /\ read(challenge) = IF inspect = "secure" THEN meant ELSE None
        /\ read(challenge \o basic) = read(challenge)
        /\ read(basic \o challenge) = None /\ read(challenge \o challenge) = None
=============================================================================

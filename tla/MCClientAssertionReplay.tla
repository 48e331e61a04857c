----------------------- MODULE MCClientAssertionReplay -----------------------
(* Three requests and four assertions: two of them share a jti but not a   *)
(* lifetime, one is issued in the future; the clock runs past every window.*)
EXTENDS ClientAssertionReplay, FiniteSets, Sequences, TLC

CONSTANTS r1, r2, r3, alice, j1, j2

MCAssertions ==
  { [sub |-> alice, jti |-> j1, iat |-> 0, exp |-> 1, fits |-> TRUE],
    [sub |-> alice, jti |-> j1, iat |-> 1, exp |-> 3, fits |-> TRUE],
    [sub |-> alice, jti |-> j2, iat |-> 3, exp |-> 6, fits |-> TRUE],
    [sub |-> alice, jti |-> j2, iat |-> 1, exp |-> 2, fits |-> FALSE] }

MCSymmetry == Permutations(Requests)

-----------------------------------------------------------------------------
(* The claims by themselves, whoever signs and whoever verifies: two       *)
(* Services, three operations, three URIs, lifetimes to one above the      *)
(* longest, and clocks that are apart.                                     *)
JWT == INSTANCE AssertionClaims
         WITH Longest <- 2, SecureUris <- {"https"}, LoopbackUris <- {"loopback"}

ClaimRequests ==
  {[agent |-> "did:agent", service |-> "s1", op |-> o, resource |-> u, ttl |-> l] :
     o \in {"status", "grant", "authenticate"},
     u \in {None, "https", "loopback", "fragment"}, l \in {None, 0, 1, 2, 3}}
ClaimTargets ==
  {[service |-> s, op |-> o, resource |-> u] :
     s \in {"s1", "s2"}, o \in {"status", "grant", "authenticate"},
     u \in {None, "https", "loopback"}}
ClaimConfigs == [skew : {0, 1}, maxTtl : {1, 2}, loopback : BOOLEAN]
Managed == [did |-> "did:agent", service |-> "s1"]

(* An Agent's own key signs whatever claims it can build, a Platform all   *)
(* whose lifetime its maximum allows: the Agent's default is the longest.  *)
Built(r, t, loopback) == JWT!BuildClaims(r, t, loopback)
ByKey(r, t, loopback) == JWT!SignJwt(Built(r, t, loopback), r.agent, loopback)
ByPlatform(r, t, maximum, loopback) ==
  JWT!SignAtPlatform(Managed, JWT!SignRequest(Built(r, t, loopback)), t + 1, maximum, loopback)
ASSUME BuiltIsSigned ==
  \A r \in ClaimRequests, loopback \in BOOLEAN, maximum \in 1..3 :
    Built(r, 3, loopback) # None =>
      LET lifetime == Built(r, 3, loopback).exp - 3 IN
      /\ ByKey(r, 3, loopback) # None
      /\ ByPlatform(r, 3, maximum, loopback) # None <=> lifetime <= maximum

(* What is signed is accepted exactly at the Service, operation and        *)
(* resource it was asked for, from the skew before it was issued until it  *)
(* expires, and after that as long as both the verifier's tolerance and    *)
(* the skew allow; a loopback resource only if all agree about it.         *)
Meant(r, target) == r.service = target.service /\ r.op = target.op /\ r.resource = target.resource
InTime(claims, t, before, after) == claims.iat <= t + before /\ t < claims.exp + after
Least(a, b) == IF a < b THEN a ELSE b
ASSUME AcceptedWhereMeant ==
  \A r \in ClaimRequests, loopback \in BOOLEAN, platform \in BOOLEAN :
    LET jwt == IF platform THEN ByPlatform(r, 3, 2, loopback) ELSE ByKey(r, 3, loopback) IN
    Built(r, 3, loopback) # None =>
      \A target \in ClaimTargets, config \in ClaimConfigs, t \in 0..8, tolerance \in 0..2 :
        LET claims == jwt.claims
            taken == JWT!AcceptClaims(claims, target, config, t)
            fits == Meant(r, target) /\ claims.exp - claims.iat <= config.maxTtl
        IN  /\ JWT!VerifyWithKey(jwt, target, t, tolerance) /\ taken <=>
                 /\ fits /\ r.resource # "loopback"
                 /\ InTime(claims, t, config.skew, Least(tolerance, config.skew))
            /\ JWT!VerifyByDidWeb(jwt, target, t, config.loopback) /\ taken <=>
                 /\ fits /\ (r.resource = "loopback" => config.loopback)
                 /\ InTime(claims, t, config.skew, 0)
            /\ JWT!VerifyAtPlatform(jwt, target, t, 1) /\ taken <=>
                 /\ fits /\ r.resource # "loopback"
                 /\ InTime(claims, t, Least(1, config.skew), 0)

-----------------------------------------------------------------------------
(* The values of claims: texts of few characters, addresses of four words, *)
(* and by the grammar those that are to be taken.                          *)
MCTexts == UNION {[1..n -> {"a", ".", "@", "\"", "\\", "-"}] : n \in 0..5} \union
           UNION {[1..n -> {"a", "@", "\"", "\\"}] : n \in 6..7} \union [1..5 -> {"a", "@", "\"", "~"}]
Val == INSTANCE ClaimValues WITH
  Texts <- {"", "text"}, Atext <- {"a", "-"}, Alphanumeric <- {"a"},
  Printable <- {"a", ".", "@", "\"", "\\", "-"}, Phones <- {"+1"}, Countries <- {"text"},
  MaxLocal <- 4, MaxDomain <- 3, MaxLabel <- 2, Words <- 4

RECURSIVE MCQuotable(_)
MCQuotable(t) ==
  \/ t = <<>>
  \/ t[1] \in {"a", ".", "@", "-"} /\ MCQuotable(Tail(t))
  \/ Len(t) > 1 /\ t[1] = "\\" /\ t[2] # "~" /\ MCQuotable(Tail(Tail(t)))
MCDotted(t, characters) ==
  /\ t # <<>> /\ \A i \in DOMAIN t : t[i] \in characters \union {"."}
  /\ \A i \in 0..Len(t) : ~(/\ i = 0 \/ t[i] = "."
                            /\ i = Len(t) \/ t[i + 1] = ".")
MCMailbox(t) ==
  \E n \in 2..(Len(t) - 1) :
    LET before == SubSeq(t, 1, n - 1)
        after  == SubSeq(t, n + 1, Len(t)) IN
    /\ t[n] = "@" /\ n - 1 <= 4 /\ Len(after) <= 3
    /\ \/ MCDotted(before, {"a", "-"})
       \/ /\ before[1] = "\"" /\ Len(before) > 1 /\ before[n - 1] = "\""
          /\ MCQuotable(SubSeq(before, 2, n - 2))
    /\ MCDotted(after, {"a", "-"})
    /\ \A i \in DOMAIN after :
         /\ after[i] = "-" => i \in 2..(Len(after) - 1) /\ after[i - 1] # "." /\ after[i + 1] # "."
         /\ after # <<"a", "a", "a">> /\ after # <<"a", "-", "a">>
ASSUME MailboxesFollowTheirGrammar ==
  \A t \in MCTexts : Val!Mailbox(t, {}) <=> MCMailbox(t)

(* An address literal stands for as many words as an address has, "::"     *)
(* for at least one of them; its last two, or the last two before a "::",  *)
(* may be written as octets.                                               *)
MCPlain(n) ==
  {[i \in 1..n |-> "hex"]} \union
  (IF n < 2 THEN {} ELSE {[i \in 1..(n - 1) |-> IF i = n - 1 THEN "ipv4" ELSE "hex"]})
MCSide(groups) == IF groups = <<>> THEN <<"">> ELSE groups
MCIpv6 ==
  MCPlain(4) \union
  UNION {{MCSide(b) \o <<"">> \o MCSide(a) : b \in MCPlain(m), a \in MCPlain(n)} :
           <<m, n>> \in {p \in (0..3) \X (0..3) : p[1] + p[2] < 4}}
ASSUME AddressesHaveTheirWords ==
  /\ \A n \in 1..6 : \A groups \in [1..n -> {"", "hex", "ipv4", "bad"}] :
       LET literal == [closed |-> TRUE, octets |-> <<None>>, groups |-> groups, tagged |-> TRUE] IN
       /\ Val!AddressLiteral(literal) <=> groups \in MCIpv6
       /\ ~Val!AddressLiteral([literal EXCEPT !.closed = FALSE])
       /\ Val!AddressLiteral([literal EXCEPT !.octets = <<0, 10, 255, 1>>])
       /\ Val!AddressLiteral([literal EXCEPT !.groups = None])
  /\ ~Val!Ipv4(<<0, 10, 256, 1>>) /\ ~Val!Ipv4(<<1, 1, 1>>) /\ ~Val!Ipv4(<<1, 1, 1, None>>)

(* Four hundred years have 146097 days.                                    *)
ASSUME DatesAreDays ==
  /\ Cardinality({<<y, m, d>> \in (1900..2299) \X (0..13) \X (0..32) : Val!FullDate(y, m, d)}) = 146097
  /\ \A y \in 1996..2100 : Val!FullDate(y, 2, 29) <=> y % 4 = 0 /\ y # 2100

(* An address needs four members, none of them empty.                      *)
MCMembers == {"country", "first_name", "last_name", "line1", "city",
              "line2", "line3", "postcode", "region", "postal_code"}
ASSUME AddressesAreWhole ==
  \A there \in SUBSET MCMembers : \A m \in MCMembers : \A value \in {"text", "", "number"} :
    LET needed == {"country", "first_name", "last_name", "line1"} IN
    Val!Address([n \in there |-> IF n = m THEN value ELSE "text"]) <=>
      /\ needed \subseteq there /\ "postal_code" \notin there
      /\ m \in there => value = "text" \/ (value = "" /\ m \notin needed \union {"city"})

ASSUME ClaimsAreCheckedByName ==
  LET yes == {"good"}
      good == [n \in {"contact.address.primary", "contact.email", "contact.mobile", "person.birthdate",
                      "person.first_name", "person.last_name", "person.username", "x.other"} |->
                 CASE n = "contact.mobile" -> "+1"
                   [] n \in {"person.first_name", "person.last_name", "person.username"} -> "text"
                   [] OTHER -> "good"] IN
  \A n \in DOMAIN good : \A value \in {"good", "text", "+1", ""} :
    Val!Claims([good EXCEPT ![n] = value], yes, yes, yes) <=> value = good[n] \/ n = "x.other"

(* An Agent that gives what it supports is asked for the rest, and exactly *)
(* if that is nothing can it satisfy what is required.                     *)
ASSUME SupportPredictsWhatIsMissing ==
  \A supported \in SUBSET {"a", "b", "c"} : \A required \in {<<>>, <<"a">>, <<"b", "a", "d">>, <<"c", "b">>} :
    LET s == Val!Support([required |-> required, optional |-> <<"c", "d">>], supported) IN
    /\ Val!Missing(required, [n \in supported |-> "text"]) = s.unsupportedRequired
    /\ s.canSatisfyRequired <=> Val!Missing(required, [n \in supported |-> "text"]) = <<>>
    /\ s.supportedOptional = (IF "c" \in supported THEN <<"c">> ELSE <<>>) /\ s.supportedPreferred = <<>>
    /\ Val!Missing(required, None) = required /\ Val!Support(None, supported).canSatisfyRequired

(* Limits to the size of values, by a definition that follows what they    *)
(* are made of.                                                            *)
MCValue(is, size, names, members) == [is |-> is, size |-> size, names |-> names, members |-> members]
MCSimple == {MCValue("text", 2, <<>>, <<>>), MCValue("text", 3, <<>>, <<>>), MCValue("plain", 0, <<>>, <<>>),
             MCValue("other", 0, <<>>, <<>>), MCValue("object", 0, <<>>, <<>>)}
MCWithin(values) ==
  {MCValue("object", 0, names, <<v>>) : names \in {<<1>>, <<3>>}, v \in values} \union
  {MCValue("object", 0, <<1, 2>>, <<v, w>>) : v \in values, w \in values} \union
  {MCValue("list", 0, <<>>, <<v, w>>) : v \in values, w \in values}
MCNested == MCWithin(MCSimple \union MCWithin({MCValue("text", 2, <<>>, <<>>), MCValue("list", 0, <<>>, <<>>)}))

RECURSIVE MCNames(_), MCFits(_, _)
MCNames(v) == Len(v.names) + (IF Len(v.members) > 0 THEN MCNames(v.members[1]) ELSE 0)
                           + (IF Len(v.members) > 1 THEN MCNames(v.members[2]) ELSE 0)
MCFits(v, depth) ==
  CASE v.is = "text" -> v.size <= 2
    [] v.is = "plain" -> TRUE
    [] v.is = "other" -> FALSE
    [] OTHER -> /\ depth > 0 /\ \A i \in DOMAIN v.names : v.names[i] <= 2
                /\ \A i \in DOMAIN v.members : MCFits(v.members[i], depth - 1)
ASSUME ValuesStayWithinLimits ==
  \A v \in MCSimple \union MCNested : \A depth \in 1..3 : \A names \in 1..4 :
    LET limits == Val!Limits([maxObjectDepth |-> depth, maxMemberCount |-> names],
                             [maxObjectDepth |-> 9, maxMemberCount |-> 9, maxStringLength |-> 2,
                              maxEncodedBytes |-> 5]) IN
    /\ Val!WithinLimits(v, limits, 5) <=> MCFits(v, depth) /\ MCNames(v) <= names
    /\ ~Val!WithinLimits(v, limits, 6) /\ Val!WithinLimits(None, limits, 6)
    /\ Val!Limits([maxObjectDepth |-> 0], limits) = None
=============================================================================

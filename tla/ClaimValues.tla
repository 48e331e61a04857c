----------------------------- MODULE ClaimValues -----------------------------
(***************************************************************************)
(* The values of claims: which ones a Service takes (validateAepClaimValues*)
(* and evaluateAepClaimSupport of packages/core/src/claims.ts) and the     *)
(* limits that it sets to their size (packages/service/src/index.ts).      *)
(*                                                                         *)
(* Where characters count, a text is the sequence of them; elsewhere it is *)
(* in Texts, in which "" is empty.  What is missing is None.               *)
(***************************************************************************)
EXTENDS Naturals, FiniteSets, Functions, SequencesExt

CONSTANTS
  None,
  Texts,
  Atext,        \* letters, digits and the signs of ATEXT_PATTERN
  Alphanumeric, \* letters and digits
  Printable,    \* the characters 32..126, blank, quote and backslash among them
  Phones,       \* the texts that match E164_PATTERN
  Countries,    \* and COUNTRY_PATTERN
  MaxLocal,     \* 64
  MaxDomain,    \* 255
  MaxLabel,     \* 63
  Words         \* 8, of which an IPv6 address consists

(* split: the pieces of a text between the separators in it.               *)
Pieces(text, separator) ==
  LET cuts   == SetToSortSeq({i \in DOMAIN text : text[i] = separator}, LAMBDA i, j : i < j)
      bounds == <<0>> \o cuts \o <<Len(text) + 1>>
  IN  [k \in 1..(Len(cuts) + 1) |-> SubSeq(text, bounds[k] + 1, bounds[k + 1] - 1)]

-----------------------------------------------------------------------------
(* mailboxSeparator: the "@" behind a quoted local part, or the only one.  *)
Escaped(text) ==
  LET escaped[i \in 1..Len(text)] == i > 2 /\ text[i - 1] = "\\" /\ ~escaped[i - 1]
  IN  escaped
Separator(text) ==
  IF text # <<>> /\ text[1] = "\""
  THEN LET closing == {i \in 2..Len(text) : text[i] = "\"" /\ ~Escaped(text)[i]}
           first   == CHOOSE i \in closing : \A j \in closing : i <= j
       IN  IF closing # {} /\ first < Len(text) /\ text[first + 1] = "@" THEN first + 1 ELSE None
  ELSE LET at == {i \in DOMAIN text : text[i] = "@"} IN
       IF Cardinality(at) = 1 THEN CHOOSE i \in at : TRUE ELSE None

(* isLocalPart, isQuotedLocalPart: an escape and what follows it are one.  *)
QuotedPart(text) ==
  LET escaped == Escaped(text) IN
  /\ Len(text) >= 2 /\ text[Len(text)] = "\""
  /\ \A i \in 2..(Len(text) - 1) :
       /\ text[i] \in Printable
       /\ text[i] = "\"" => escaped[i]
       /\ text[i] = "\\" /\ ~escaped[i] => i + 1 < Len(text)
LocalPart(text) ==
  IF text[1] = "\"" THEN QuotedPart(text)
  ELSE \A atom \in ToSet(Pieces(text, ".")) : atom # <<>> /\ ToSet(atom) \subseteq Atext

(* isMailboxDomain, given the texts that are address literals; those begin *)
(* or end with a bracket.                                                  *)
Label(text) ==
  /\ Len(text) \in 1..MaxLabel /\ ToSet(text) \subseteq Alphanumeric \union {"-"}
  /\ text[1] # "-" /\ text[Len(text)] # "-"
Domain(text, literals) ==
  IF "[" = text[1] \/ "]" = text[Len(text)] THEN text \in literals
  ELSE \A piece \in ToSet(Pieces(text, ".")) : Label(piece)

Mailbox(text, literals) ==
  LET at == Separator(text) IN
  /\ at # None /\ at > 1 /\ at < Len(text)
  /\ at - 1 <= MaxLocal /\ Len(text) - at <= MaxDomain
  /\ LocalPart(SubSeq(text, 1, at - 1))
  /\ Domain(SubSeq(text, at + 1, Len(text)), literals)

-----------------------------------------------------------------------------
(* isIpv4Address, of the numbers between its dots.                         *)
Ipv4(octets) == Len(octets) = 4 /\ \A i \in DOMAIN octets : octets[i] \in 0..255

(* ipv6Groups: how many words the groups between colons stand for, or None.*)
(* A group is "" (as beside "::"), "hex", "ipv4" or "bad".                 *)
WordsOf(groups) ==
  LET length(i) == IF groups[i] = "hex" THEN 1 ELSE 2 IN
  CASE groups = <<"">> -> 0
    [] groups # <<"">> /\ \A i \in DOMAIN groups :
         groups[i] = "hex" \/ (i = Len(groups) /\ groups[i] = "ipv4") ->
         Len(groups) - 1 + length(Len(groups))
    [] OTHER -> None

(* isIpv6Address: "::" stands for one word or more, and comes once.        *)
Ipv6(groups) ==
  LET gaps == {i \in 2..(Len(groups) - 1) : groups[i] = ""} IN
  /\ groups # <<"">> /\ Cardinality(gaps) <= 1
  /\ IF gaps = {} THEN WordsOf(groups) = Words
     ELSE LET gap    == CHOOSE i \in gaps : TRUE
              before == WordsOf(SubSeq(groups, 1, gap - 1))
              after  == WordsOf(SubSeq(groups, gap + 1, Len(groups)))
          IN  before # None /\ after # None /\ before + after < Words

(* isAddressLiteral, closed by brackets: octets are those of its content,  *)
(* groups those behind "IPv6:" or None, tagged says that a tag and visible *)
(* characters are in it.                                                   *)
AddressLiteral(literal) ==
  /\ literal.closed
  /\ \/ Ipv4(literal.octets)
     \/ literal.groups # None /\ Ipv6(literal.groups)
     \/ literal.groups = None /\ literal.tagged

-----------------------------------------------------------------------------
(* isFullDate.                                                             *)
LeapYear(year) == year % 4 = 0 /\ (year % 100 # 0 \/ year % 400 = 0)
DaysIn(year, month) ==
  CASE month \in {4, 6, 9, 11} -> 30
    [] month = 2 -> IF LeapYear(year) THEN 29 ELSE 28
    [] OTHER -> 31
FullDate(year, month, day) == month \in 1..12 /\ day \in 1..DaysIn(year, month)

(* optionalAddress: a member that one might take for postcode is refused.  *)
Filled(value) == value \in Texts \ {""}
Address(value) ==
  LET member(m) == IF m \in DOMAIN value THEN value[m] ELSE None IN
  /\ member("country") \in Countries
  /\ \A m \in {"first_name", "last_name", "line1"} : Filled(member(m))
  /\ member("city") # None => Filled(member("city"))
  /\ \A m \in {"line2", "line3", "postcode", "region"} : member(m) \in Texts \union {None}
  /\ "postal_code" \notin DOMAIN value

(* validateAepClaimValues; the kinds that have an algorithm of their own   *)
(* come as the values that it takes.                                       *)
Claims(values, addresses, mailboxes, dates) ==
  \A name \in DOMAIN values :
    LET value == values[name] IN
    CASE name = "contact.address.primary" -> value \in addresses
      [] name = "contact.email" -> value \in mailboxes
      [] name = "contact.mobile" -> value \in Phones
      [] name = "person.birthdate" -> value \in dates
      [] name \in {"person.first_name", "person.last_name", "person.username"} -> Filled(value)
      [] OTHER -> TRUE

-----------------------------------------------------------------------------
(* evaluateAepClaimSupport and missingAepRequiredClaimNames.               *)
Names(requested, kind) ==
  IF requested = None \/ kind \notin DOMAIN requested THEN <<>> ELSE requested[kind]
Support(requested, supported) ==
  LET those(kind) == SelectSeq(Names(requested, kind), LAMBDA name : name \in supported)
      unmet       == SelectSeq(Names(requested, "required"), LAMBDA name : name \notin supported)
  IN  [canSatisfyRequired |-> unmet = <<>>, unsupportedRequired |-> unmet,
       supportedOptional |-> those("optional"), supportedPreferred |-> those("preferred")]
Missing(required, values) ==
  SelectSeq(required, LAMBDA name : values = None \/ name \notin DOMAIN values)

(* resolveClaimValueLimits: of what is not configured there is a default,  *)
(* and a limit that is no positive number stops the Service from starting. *)
Limits(configured, default) ==
  LET limits == [n \in DOMAIN default |-> IF n \in DOMAIN configured THEN configured[n] ELSE default[n]]
  IN  IF \A n \in DOMAIN limits : limits[n] \in Nat \ {0} THEN limits ELSE None

(* claimValueWithinLimits, of a value [is, size, names, members]: is tells *)
(* "text" of size characters, "object" with the sizes of its names, "list",*)
(* "plain" for numbers, truth values and null, or "other".  The values     *)
(* within one another are taken depth by depth, bytes being all of it in   *)
(* JSON.                                                                   *)
WithinLimits(value, limits, bytes) ==
  LET layers[depth \in 1..(limits.maxObjectDepth + 1)] ==
        IF depth = 1 THEN <<value>>
        ELSE FlattenSeq([i \in DOMAIN layers[depth - 1] |-> layers[depth - 1][i].members])
      all   == FlattenSeq([depth \in DOMAIN layers |-> layers[depth]])
      names == FlattenSeq([i \in DOMAIN all |-> all[i].names])
  IN  value = None \/
        /\ \A i \in DOMAIN all : /\ all[i].is # "other"
                                 /\ all[i].is = "text" => all[i].size <= limits.maxStringLength
        /\ \A i \in DOMAIN layers[limits.maxObjectDepth + 1] :
             layers[limits.maxObjectDepth + 1][i].is \notin {"object", "list"}
        /\ Len(names) <= limits.maxMemberCount
        /\ \A i \in DOMAIN names : names[i] <= limits.maxStringLength
        /\ bytes <= limits.maxEncodedBytes
=============================================================================

------------------------------- MODULE Address -------------------------------
(***************************************************************************)
(* Addresses as text and what they are for, in tools-core: normalizeIp     *)
(* with the parsers and formatters under it (ip/address.ts), and           *)
(* classifyIp (ip/cidr.ts).  Text is what is left once it has been split   *)
(* at its separators: of version 4 the digits of its numbers, of version 6 *)
(* the halves around "::", each a list of parts.  An address is its units: *)
(* four bytes or eight groups of 16 bits.  A behaviour is one call.        *)
(***************************************************************************)
EXTENDS Integers, SequencesExt

CONSTANTS
  Texts,      \* what normalizeIp is asked about
  Hosts4,     \* what classifyIp is asked about: four bytes
  Hosts6,     \* ... or eight groups
  NoAddress   \* null

(* The last value of a unit. *)
MaxByte == 255
MaxGroup == 65535

(* The parts that parseGroups splits a half into. *)
TextParts == [hex : 0..MaxGroup] \cup [quad : Seq(Seq(0..9))] \cup [bad : STRING]

ASSUME AddressAssumption ==
  /\ Texts \subseteq [numbers : Seq(Seq(0..9))] \cup [halves : Seq(Seq(TextParts)) \ {<<>>}]
  /\ Hosts4 \subseteq [1..4 -> 0..MaxByte] /\ Hosts6 \subseteq [1..8 -> 0..MaxGroup]
  /\ \A k \in 0..8 : NoAddress \notin [1..k -> 0..MaxGroup]

VARIABLES
  asked,      \* the call: a text, or an address to classify
  result      \* what it returned

addressVars == <<asked, result>>

AddressInit == asked = NoAddress /\ result = NoAddress

Refused(x) == x = NoAddress

-----------------------------------------------------------------------------
(* parseIPv4: numbers of one to three digits, without a leading zero.      *)
Numeral(digits) ==
  LET N[i \in 0..Len(digits)] == IF i = 0 THEN 0 ELSE 10 * N[i - 1] + digits[i]
  IN  N[Len(digits)]
IsByte(digits) ==
  /\ Len(digits) \in 1..3
  /\ Len(digits) > 1 => digits[1] # 0
  /\ Numeral(digits) <= 255
ParseIPv4(numbers) ==
  IF Len(numbers) = 4 /\ \A i \in 1..4 : IsByte(numbers[i])
  THEN [i \in 1..4 |-> Numeral(numbers[i])]
  ELSE NoAddress

(* parseGroups: hexadecimal groups, the last of which may be two groups    *)
(* written as an address of version 4.  A part is [hex], [quad] or [bad].  *)
Groups(part) ==
  IF "hex" \in DOMAIN part THEN <<part.hex>>
  ELSE LET v4 == ParseIPv4(part.quad) IN <<v4[1] * 256 + v4[2], v4[3] * 256 + v4[4]>>
PartIsValid(half, i) ==
  \/ "hex" \in DOMAIN half[i]
  \/ "quad" \in DOMAIN half[i] /\ i = Len(half) /\ ~ Refused(ParseIPv4(half[i].quad))
ParseGroups(half) ==
  IF \A i \in 1..Len(half) : PartIsValid(half, i)
  THEN FlattenSeq([i \in 1..Len(half) |-> Groups(half[i])])
  ELSE NoAddress

Zeros(k) == [i \in 1..k |-> 0]

ParseIPv6(halves) ==
  LET parsed == [i \in 1..Len(halves) |-> ParseGroups(halves[i])]
      missing == 8 - (Len(parsed[1]) + Len(parsed[2]))
      groups == IF Len(halves) = 1 THEN parsed[1]
                ELSE parsed[1] \o Zeros(missing) \o parsed[2]
  IN  IF \/ Len(halves) > 2
         \/ \E i \in 1..Len(halves) : Refused(parsed[i])
         \/ Len(halves) = 2 /\ missing < 1
         \/ Len(groups) # 8
      THEN NoAddress ELSE groups

ParseIp(text) ==
  IF "numbers" \in DOMAIN text THEN ParseIPv4(text.numbers) ELSE ParseIPv6(text.halves)

-----------------------------------------------------------------------------
(* formatIPv4 and formatIPv6 *)
Digits(n) ==
  IF n < 10 THEN <<n>>
  ELSE IF n < 100 THEN <<n \div 10, n % 10>>
  ELSE <<n \div 100, (n \div 10) % 10, n % 10>>
FormatIPv4(bytes) == [numbers |-> [i \in 1..4 |-> Digits(bytes[i])]]

(* A plausible slip: of two runs as long as each other the later wins. *)
Longer_OrEqual(run, best) == Len(run) >= Len(best)

Longer(run, best) == Len(run) > Len(best)

(* The positions of the longest run of zeros, found in one pass. *)
BestRun(groups) ==
  LET Runs[i \in 0..8] ==
        IF i = 0 THEN [current |-> <<>>, best |-> <<>>]
        ELSE LET runs == Runs[i - 1]
                 current == IF groups[i] = 0 THEN Append(runs.current, i) ELSE <<>>
             IN  [current |-> current,
                  best |-> IF Longer(current, runs.best) THEN current ELSE runs.best]
  IN  Runs[8].best

Hex(groups) == [i \in 1..Len(groups) |-> [hex |-> groups[i]]]
Expanded(groups) == [halves |-> <<Hex(groups)>>]
FormatIPv6(groups) ==
  LET best == BestRun(groups)
  IN  IF Len(best) >= 2
      THEN [halves |-> <<Hex(SubSeq(groups, 1, best[1] - 1)),
                         Hex(SubSeq(groups, best[1] + Len(best), 8))>>]
      ELSE Expanded(groups)

NormalizeIp(text) ==
  LET units == ParseIp(text)
  IN  IF Refused(units) THEN NoAddress
      ELSE [units |-> units,
            normalized |-> IF Len(units) = 4 THEN FormatIPv4(units) ELSE FormatIPv6(units),
            expanded |-> IF Len(units) = 4 THEN FormatIPv4(units) ELSE Expanded(units)]

Normalize(text) ==
  /\ asked' = text
  /\ result' = NormalizeIp(text)

-----------------------------------------------------------------------------
(* classifyIp: the first row whose range holds the address.  A row is its  *)
(* network, cut after the last unit that is not 0, and its prefix.         *)
Row(network, prefix, scope) == [network |-> network, prefix |-> prefix, scope |-> scope]

SpecialV4 ==
  <<Row(<<0>>, 8, "this-network"), Row(<<10>>, 8, "private"),
    Row(<<100, 64>>, 10, "cgnat"), Row(<<127>>, 8, "loopback"),
    Row(<<169, 254>>, 16, "link-local"), Row(<<172, 16>>, 12, "private"),
    Row(<<192, 0, 2>>, 24, "documentation"), Row(<<192, 168>>, 16, "private"),
    Row(<<198, 18>>, 15, "benchmarking"), Row(<<198, 51, 100>>, 24, "documentation"),
    Row(<<203, 0, 113>>, 24, "documentation"), Row(<<224>>, 4, "multicast"),
    Row(<<240>>, 4, "reserved"), Row(<<255, 255, 255, 255>>, 32, "broadcast")>>

SpecialV6 ==
  <<Row(Zeros(7) \o <<1>>, 128, "loopback"), Row(<<>>, 128, "unspecified"),
    Row(<<100, 65435>>, 96, "nat64"), Row(<<256>>, 64, "discard"),
    Row(<<8193, 3512>>, 32, "documentation"), Row(<<64512>>, 7, "unique-local"),
    Row(<<65152>>, 10, "link-local"), Row(<<65280>>, 8, "multicast")>>

Table(units) == IF Len(units) = 4 THEN SpecialV4 ELSE SpecialV6
UnitBits(units) == IF Len(units) = 4 THEN 8 ELSE 16

(* How many low bits of the i-th unit the prefix leaves free. *)
Least(a, b) == IF a < b THEN a ELSE b
FreeBits(prefix, i, w) == IF prefix >= i * w THEN 0 ELSE Least(w, i * w - prefix)

(* cidrToRange: the first and the last address of a row. *)
First(row, units) ==
  [i \in 1..Len(units) |-> IF i <= Len(row.network) THEN row.network[i] ELSE 0]

(* A plausible slip: only whole units are looked at. *)
End_OfWholeUnits(row, units) ==
  [i \in 1..Len(units) |->
     IF FreeBits(row.prefix, i, UnitBits(units)) = 0
     THEN First(row, units)[i] ELSE 2 ^ UnitBits(units) - 1]

End(row, units) ==
  [i \in 1..Len(units) |->
     First(row, units)[i] + 2 ^ FreeBits(row.prefix, i, UnitBits(units)) - 1]

(* Addresses in the order of their values. *)
AtMost(a, b) ==
  a = b \/ \E i \in 1..Len(a) : a[i] < b[i] /\ \A j \in 1..(i - 1) : a[j] = b[j]
Holds(row, units) == AtMost(First(row, units), units) /\ AtMost(units, End(row, units))

ClassifyIp(units) ==
  LET matching == {i \in DOMAIN Table(units) : Holds(Table(units)[i], units)}
  IN  [units |-> units,
       scope |-> IF matching = {} THEN "global-unicast" ELSE Table(units)[Min(matching)].scope]

Classify(units) ==
  /\ asked' = units
  /\ result' = ClassifyIp(units)

AddressNext ==
  /\ Refused(asked)
  /\ \/ \E text \in Texts : Normalize(text)
     \/ \E units \in Hosts4 \cup Hosts6 : Classify(units)

-----------------------------------------------------------------------------
(* The normalized text of an address reads back as the address, in both    *)
(* notations, and is the only one for it: "::" stands for a run of zeros   *)
(* that is as long as any and the first of that length, and for two groups *)
(* at least ("Compress the longest run (>= 2)", address.ts:115).           *)
RunsOf(groups) == {r \in (1..8) \X (1..8) : r[1] < r[2] /\ \A i \in r[1]..r[2] : groups[i] = 0}
TextIsCanonical ==
  ~ Refused(result) /\ "normalized" \in DOMAIN result =>
    LET units == result.units
        runs == RunsOf(units)
        parts == result.normalized.halves
    IN  /\ ParseIp(result.normalized) = units /\ ParseIp(result.expanded) = units
        /\ Len(units) = 8 =>
             \/ runs = {} /\ Len(parts) = 1
             \/ /\ Len(parts) = 2
                /\ \A r \in runs :
                     LET length == 8 - Len(parts[1]) - Len(parts[2])
                     IN  \/ r[2] - r[1] + 1 < length
                         \/ r[2] - r[1] + 1 = length /\ r[1] > Len(parts[1])

(* An address has the scope of the narrowest row of the table that it      *)
(* begins like, whatever the order of the rows, but for 255.255.255.255:   *)
(* its row stands behind the wider 240.0.0.0/4 (cidr.ts:174) and is never  *)
(* reached.                                                                *)
BeginsLike(units, row) ==
  \A i \in 1..Len(units) :
    LET free == 2 ^ FreeBits(row.prefix, i, UnitBits(units))
    IN  units[i] \div free = First(row, units)[i] \div free
NarrowestScopeWins ==
  ~ Refused(result) /\ "scope" \in DOMAIN result =>
    LET rows == {row \in ToSet(Table(result.units)) : BeginsLike(result.units, row)}
    IN  \/ rows = {} /\ result.scope = "global-unicast"
        \/ \E row \in rows :
             /\ result.scope = row.scope
             /\ \A r \in rows : r.scope = "broadcast" \/ r.prefix <= row.prefix

=============================================================================

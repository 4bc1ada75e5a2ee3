----------------------------- MODULE MCPureTools -----------------------------
EXTENDS PureTools

MCBits == [v \in Versions |-> IF v = 4 THEN 4 ELSE 5]
MCSize == [k \in 0..5 |-> 2 ^ k]

-----------------------------------------------------------------------------
(* Messages, by an encoder of their own. *)

(* A field as it is sent and as it is meant. *)
F(bytes, value) == [bytes |-> bytes, value |-> value]
N(bytes) == F(bytes, bytes)

(* The question is for the name "x" at byte 12; the first answer's name is *)
(* at byte 19.                                                             *)
QName == <<120>>
AsRoot == F(<<0>>, <<>>)
AsWritten == F(<<2, 97, 98, 1, 99, 0>>, <<97, 98, 46, 99>>)
AsQuestion == F(<<192, 12>>, QName)
BelowQuestion == F(<<1, 97, 192, 12>>, <<97, 46>> \o QName)

(* Labels that say more or less than their bytes: one with a dot in it, one*)
(* with a byte that begins no character, one with a byte order mark.       *)
OddNames == {F(<<3, 97, 46, 98, 192, 12>>, <<97, 46, 98, 46>> \o QName),
             F(<<2, 255, 97, 192, 12>>, <<239, 191, 189, 97, 46>> \o QName),
             F(<<4, 239, 187, 191, 97, 0>>, <<97>>)}
Names == {AsRoot, AsWritten, AsQuestion, BelowQuestion}

(* The key tag of RFC 4034 as a sum of 16-bit words. *)
Tag(bytes) ==
  LET padded == IF Len(bytes) % 2 = 0 THEN bytes ELSE Append(bytes, 0)
      sum == FoldLeft(LAMBDA s, i : s + padded[2 * i - 1] * 256 + padded[2 * i], 0,
                      [i \in 1..(Len(padded) \div 2) |-> i])
  IN  (sum + sum \div 65536) % 65536
Key(k) == [type |-> "DNSKEY", fields |->
            <<N(<<1, 1>>), N(<<3>>), N(<<8>>), F(k, Tag(<<1, 1, 3, 8>> \o k))>>]

U32 == N(<<1, 2, 3, 4>>)
IP6 == <<32, 1, 13, 184, 0, 0, 0, 0, 0, 0, 0, 0, 0, 0, 0, 1>>
Gate(kind, gateway) == F(<<kind, 2>> \o gateway.bytes, gateway.value)

Records(type, fields) == {[type |-> type, fields |-> f] : f \in fields}

(* Chunks, and the text they are: characters of two, three and four bytes; *)
(* one divided between two chunks; a byte order mark; a byte too many and  *)
(* one that could not be; a character written too long, half of a pair,    *)
(* one past the last, and two that break off.                              *)
Lost == <<239, 191, 189>>
Texted ==
  {F(<<3, 97, 195, 169>>, <<97, 195, 169>>), F(<<4, 226, 130, 172, 97>>, <<226, 130, 172, 97>>),
   F(<<4, 240, 159, 152, 128>>, <<240, 159, 152, 128>>),
   F(<<1, 195, 2, 169, 97>>, Lost \o Lost \o <<97>>),
   F(<<4, 239, 187, 191, 97, 3, 239, 187, 191>>, <<97>>),
   F(<<5, 97, 239, 187, 191, 97>>, <<97, 239, 187, 191, 97>>),
   F(<<3, 97, 169, 98>>, <<97>> \o Lost \o <<98>>), F(<<2, 255, 97>>, Lost \o <<97>>),
   F(<<2, 192, 175>>, Lost \o Lost), F(<<3, 224, 159, 191>>, Lost \o Lost \o Lost),
   F(<<3, 237, 160, 128>>, Lost \o Lost \o Lost), F(<<2, 244, 144>>, Lost \o Lost),
   F(<<4, 226, 130, 97, 98>>, Lost \o <<97, 98>>), F(<<4, 240, 159, 152, 97>>, Lost \o <<97>>)}

Samples ==
  {[type |-> "A", fields |-> <<N(<<192, 0, 2, 1>>)>>],
   [type |-> "AAAA", fields |-> <<N(IP6)>>],
   [type |-> "TXT", fields |-> <<F(<<2, 97, 98, 0, 1, 99>>, <<97, 98, 99>>)>>],
   [type |-> "TXT", fields |-> <<F(<<3, 97, 98, 99>>, <<97, 98, 99>>)>>],
   [type |-> "CAA", fields |-> <<N(<<0>>), F(<<2, 97, 98>>, <<97, 98>>), N(<<99, 100>>)>>],
   [type |-> "CAA", fields |-> <<N(<<0>>), F(<<1, 255>>, Lost), F(<<239, 187, 191, 195, 169>>, <<195, 169>>)>>],
   [type |-> "DS", fields |-> <<N(<<4, 5>>), N(<<8>>), N(<<2>>), N(<<7, 7, 7>>)>>],
   Key(<<1, 2, 3>>), Key(<<255, 255, 255, 255>>),
   [type |-> "LOC", fields |-> <<N(<<0>>), F(<<18>>, <<1, 2>>), F(<<166>>, <<1, 7>>), F(<<3>>, <<0, 0>>), U32, U32, U32>>],
   [type |-> "CERT", fields |-> <<N(<<0, 1>>), N(<<4, 5>>), N(<<8>>), N(<<9, 9>>)>>],
   [type |-> "NSEC3PARAM", fields |-> <<N(<<1>>), N(<<0>>), N(<<0, 5>>), F(<<2, 171, 205>>, <<171, 205>>)>>],
   [type |-> "NSEC3PARAM", fields |-> <<N(<<1>>), N(<<0>>), N(<<0, 5>>), F(<<0>>, <<>>)>>],
   [type |-> "IPSECKEY", fields |-> <<N(<<10>>), Gate(0, N(<<>>)), N(<<9, 9>>)>>],
   [type |-> "IPSECKEY", fields |-> <<N(<<10>>), Gate(1, N(<<192, 0, 2, 1>>)), N(<<9, 9>>)>>],
   [type |-> "IPSECKEY", fields |-> <<N(<<10>>), Gate(2, N(IP6)), N(<<9, 9>>)>>]}
  \cup Records("TXT", {<<text>> : text \in Texted})
  \cup Records("NS", {<<name>> : name \in OddNames})
  \cup UNION {
    Records("NS", {<<name>>}) \cup Records("CNAME", {<<name>>}) \cup Records("PTR", {<<name>>})
    \cup Records("MX", {<<N(<<0, 10>>), name>>})
    \cup Records("SRV", {<<N(<<0, 1>>), N(<<0, 2>>), N(<<1, 187>>), name>>})
    \cup Records("SOA", {<<name, BelowQuestion, U32, U32, U32, U32, U32>>})
    \cup Records("NSEC", {<<name, F(<<0, 1, 64, 1, 2, 0, 65>>, <<{1}, {265, 271}>>)>>})
    \cup Records("IPSECKEY", {<<N(<<10>>), Gate(3, name), N(<<9, 9>>)>>})
    \cup Records("RRSIG", {<<N(<<0, 1>>), N(<<8>>), N(<<2>>), U32, U32, U32, N(<<4, 5>>), name, N(<<9, 9>>)>>})
    : name \in Names}

(* The bytes of answers and what they mean; an answer is [owner, type,     *)
(* fields].                                                                *)
Number(type) == IF type = "other" THEN 99 ELSE TypeOf[type]
RdataOf(a) == FlattenSeq([i \in 1..Len(a.fields) |-> a.fields[i].bytes])
BytesOf(a) ==
  a.owner.bytes \o <<Number(a.type) \div 256, Number(a.type) % 256, 0, 1, 0, 0, 14, 16, 0, Len(RdataOf(a))>>
    \o RdataOf(a)
MeantBy(a) == [name |-> a.owner.value, type |-> Number(a.type), ttl |-> <<0, 0, 14, 16>>,
               data |-> [i \in 1..Len(a.fields) |-> a.fields[i].value]]
Message(s) ==
  [sort |-> "whole", meant |-> [i \in 1..Len(s) |-> MeantBy(s[i])],
   bytes |-> <<0, 0, 129, 160, 0, 1, 0, Len(s), 0, 0, 0, 0, 1, 120, 0, 0, 1, 0, 1>>
               \o FlattenSeq([i \in 1..Len(s) |-> BytesOf(s[i])])]
With(owner, r) == [owner |-> owner, type |-> r.type, fields |-> r.fields]

(* Four labels, each behind a pointer, laid out in the data of a record of *)
(* a type unknown (bytes 31 to 48) and used by the next record: with the   *)
(* pointer to them and the root, ten rounds.                               *)
Ladder == N(<<1, 97, 192, 35, 1, 98, 192, 39, 1, 99, 192, 43, 1, 100, 192, 47, 0>>)
LadderName == F(<<192, 31>>, <<97, 46, 98, 46, 99, 46, 100>>)
Winding == Message(<<[owner |-> AsQuestion, type |-> "other", fields |-> <<Ladder>>],
                     [owner |-> LadderName, type |-> "NS", fields |-> <<LadderName>>]>>)

Singles == {Message(<<With(AsQuestion, r)>>) : r \in Samples}
Pairs == {Message(<<With(o, r), With(BelowQuestion, q)>>) : o \in Names, r \in Samples,
             q \in Records("MX", {<<N(<<0, 10>>), BelowQuestion>>})
                   \cup Records("TXT", {<<F(<<1, 97>>, <<97>>)>>})}
Cuts(m) == {[m EXCEPT !.sort = "cut", !.bytes = SubSeq(@, 1, k)] : k \in 0..(Len(m.bytes) - 1)}

Loose == [1..5 -> {0, 1, 192, 12, 14, 16}]
MCInputs ==
  Singles \cup Pairs \cup {Winding, Message(<<>>)}
  \cup UNION {Cuts(m) : m \in Singles \cup {Winding}}
  \cup {[sort |-> "any", meant |-> <<>>,
         bytes |-> <<0, 0, 1, 0, 0, 1, 0, 0, 0, 0, 0, 0>> \o q] : q \in Loose}

Labels == {<<>>, <<97>>, [i \in 1..63 |-> 97], [i \in 1..64 |-> 97]}
Long == UNION {{a, Append(a, <<>>)} : a \in {[i \in 1..k |-> <<97>>] : k \in 8..11}}
MCQueries == [name : UNION {[1..k -> Labels] : k \in 1..3} \cup Long,
              type : {1, 257}, dnssecOk : BOOLEAN]

-----------------------------------------------------------------------------
(* Texts: every pattern of zero groups; halves with every kind of part, and *)
(* too long; the numbers of version 4 at their limits.                     *)
Parts == {[hex |-> 0], [hex |-> 43981], [bad |-> "g"],
          [quad |-> <<<<1, 9, 2>>, <<0>>, <<2>>, <<1>>>>],
          [quad |-> <<<<1>>, <<2>>, <<3>>, <<0, 4>>>>]}
Halves == UNION {[1..k -> Parts] : k \in 0..2} \cup {Hex([i \in 1..k |-> i]) : k \in 3..8}
Numerals == {<<>>, <<0>>, <<1, 0>>, <<0, 7>>, <<2, 5, 5>>, <<2, 5, 6>>, <<1, 0, 0, 0>>}
MCTexts ==
  {[halves |-> <<Hex(g)>>] : g \in [1..8 -> {0, 1}]}
  \cup {[halves |-> h] : h \in UNION {[1..k -> Halves] : k \in 1..2}}
  \cup {[halves |-> <<<<>>, <<>>, <<>>>>]}
  \cup {[numbers |-> list] : list \in UNION {[1..k -> Numerals] : k \in 3..4}}

(* Both ends of every row, and the addresses that differ from them by one  *)
(* in one unit.                                                            *)
Zero(k) == [i \in 1..k |-> 0]
Ends(table, k) == UNION {{First(row, Zero(k)), End(row, Zero(k))} : row \in ToSet(table)}
Near(a, top) ==
  {b \in UNION {{[a EXCEPT ![i] = @ - 1], [a EXCEPT ![i] = @ + 1]} : i \in 1..Len(a)} :
     \A i \in 1..Len(b) : b[i] \in 0..top}
MCHosts4 == UNION {{a} \cup Near(a, 255) : a \in Ends(SpecialV4, 4)}
MCHosts6 == UNION {{a} \cup Near(a, 65535) : a \in Ends(SpecialV6, 8)}
=============================================================================

-------------------------------- MODULE Wire --------------------------------
(***************************************************************************)
(* The DNS message codec of tools-core (dns/wire.ts): encodeQuery and      *)
(* decodeMessage with readName and decodeRdata.  A message is its bytes.   *)
(* Reading a number past the end of it throws (DataView); a slice past the *)
(* end silently comes out shorter (subarray).  A behaviour is one call;    *)
(* each question and each answer is a step.  A string is written as the    *)
(* bytes it has in UTF-8; the notations the other fields are printed in    *)
(* (hex, base64, degrees, dates), which lose nothing, are left out.        *)
(***************************************************************************)
EXTENDS Integers, SequencesExt

CONSTANTS
  Inputs,    \* what is decoded: [sort, bytes, meant], see below
  Queries,   \* what is encoded: [name, type, dnssecOk]; a name is its labels
  Rounds     \* 256, the rounds of readName before it takes a name for a loop

(* What is known of a message that is decoded: the records it was encoded  *)
(* from ("whole"), of which the last bytes may be missing ("cut"), or      *)
(* nothing ("any").                                                        *)
Sorts == {"whole", "cut", "any"}

ASSUME WireAssumption ==
  /\ Rounds \in Nat /\ Rounds > 1
  /\ \A m \in Inputs : m.sort \in Sorts /\ m.bytes \in Seq(0..255)
  /\ Queries \subseteq [name : Seq(Seq(Nat)) \ {<<>>}, type : Nat, dnssecOk : BOOLEAN]

VARIABLES
  message,   \* what the call is about
  stage,     \* where the call is
  offset,    \* the next byte to decode
  left,      \* the questions, or answers, still to be read
  answers    \* the records so far

wireVars == <<message, stage, offset, left, answers>>

WireInit ==
  /\ message = [sort |-> "any", bytes |-> <<>>, meant |-> <<>>]
  /\ stage = "idle" /\ offset = 0 /\ left = 0 /\ answers = <<>>

Has(b, i, k) == i + k <= Len(b)
U8(b, i) == b[i + 1]
U16(b, i) == U8(b, i) * 256 + U8(b, i + 1)
Slice(b, i, end) == SubSeq(b, i + 1, IF end > Len(b) THEN Len(b) ELSE end)

Read(value, next) == [ok |-> TRUE, value |-> value, next |-> next]
Throws == [ok |-> FALSE, value |-> <<>>, next |-> 0]

-----------------------------------------------------------------------------
(* TextDecoder: bytes that begin no character, and those of a character    *)
(* that is not all there, come out as U+FFFD; a byte order mark in front   *)
(* is dropped.                                                             *)
Replacement == <<239, 191, 189>>
ByteOrderMark == <<239, 187, 191>>

(* How many bytes a character has behind its first one. *)
Behind(lead) ==
  CASE lead < 128 -> 0
    [] lead \in 194..223 -> 1
    [] lead \in 224..239 -> 2
    [] lead \in 240..244 -> 3
    [] OTHER -> -1

(* The j-th byte behind place i can go on with the character that begins   *)
(* there: it is none that could be written shorter, no half of a pair and  *)
(* none past the last one there is.                                        *)
GoesOn(s, i, j) ==
  /\ Has(s, i + j, 1)
  /\ LET lead == U8(s, i)
         c == U8(s, i + j)
     IN  /\ c \in 128..191
         /\ j = 1 => /\ lead = 224 => c >= 160
                     /\ lead = 237 => c < 160
                     /\ lead = 240 => c >= 144
                     /\ lead = 244 => c < 144

(* How many go on with it. *)
Going(s, i) == Max({0} \cup {k \in 1..Behind(U8(s, i)) : \A j \in 1..k : GoesOn(s, i, j)})

Character(s, i) ==
  IF Going(s, i) = Behind(U8(s, i)) THEN Slice(s, i, i + 1 + Going(s, i)) ELSE Replacement

Decoded(s) ==
  LET Rest[i \in Nat] ==
        IF i >= Len(s) THEN <<>> ELSE Character(s, i) \o Rest[i + 1 + Going(s, i)]
  IN  Rest[IF IsPrefix(ByteOrderMark, s) THEN 3 ELSE 0]

AsText(r) == [r EXCEPT !.value = Decoded(@)]

-----------------------------------------------------------------------------
(* readName: after a pointer the message goes on behind the first pointer, *)
(* wherever the name is continued.                                         *)

(* A plausible slip: it goes on where the name ended. *)
Jumped_Stays(r, pos) == r

Jumped(r, pos) == [r EXCEPT !.next = pos + 2]

(* A plausible slip: the loop ends instead of failing. *)
OutOfRounds_Ends == Read(<<>>, 0)

OutOfRounds == Throws

(* One round of the loop, at byte pos; `rest` reads on, with one round less. *)
Round(b, pos, rest) ==
  IF ~ Has(b, pos, 1) THEN Throws
  ELSE IF U8(b, pos) = 0 THEN Read(<<>>, pos + 1)
  ELSE IF U8(b, pos) < 192
  THEN [rest[pos + 1 + U8(b, pos)] EXCEPT
          !.value = <<Slice(b, pos + 1, pos + 1 + U8(b, pos))>> \o @]
  ELSE IF ~ Has(b, pos, 2) THEN Throws
  ELSE Jumped(rest[U16(b, pos) % 16384], pos)

(* The labels, as bytes. *)
ReadLabels(b, at) ==
  LET Name[k \in 0..Rounds] ==
        [pos \in Nat |-> IF k = 0 THEN OutOfRounds ELSE Round(b, pos, Name[k - 1])]
  IN  Name[Rounds][at]

(* The name they make: a dot in a label is not told from one between two.  *)
Dot == 46
Dotted(labels) ==
  FlattenSeq([i \in 1..Len(labels) |->
                (IF i = 1 THEN <<>> ELSE <<Dot>>) \o Decoded(labels[i])])

ReadName(b, at) ==
  LET labels == ReadLabels(b, at)
  IN  [labels EXCEPT !.value = Dotted(@)]

-----------------------------------------------------------------------------
(* decodeRdata: a record is read field after field.  Only the fields that  *)
(* run to its end look at its length.                                      *)

Width == [u8 |-> 1, skip |-> 1, u16 |-> 2, u32 |-> 4, ip4 |-> 4, ip6 |-> 16]

TypeOf == [A |-> 1, NS |-> 2, CNAME |-> 5, SOA |-> 6, PTR |-> 12, MX |-> 15,
           TXT |-> 16, AAAA |-> 28, LOC |-> 29, SRV |-> 33, CERT |-> 37,
           DS |-> 43, IPSECKEY |-> 45, RRSIG |-> 46, NSEC |-> 47,
           DNSKEY |-> 48, NSEC3PARAM |-> 51, CAA |-> 257]

Layouts ==
  [A |-> <<"ip4">>, AAAA |-> <<"ip6">>, TXT |-> <<"text">>,
   NS |-> <<"name">>, CNAME |-> <<"name">>, PTR |-> <<"name">>,
   MX |-> <<"u16", "name">>, SRV |-> <<"u16", "u16", "u16", "name">>,
   SOA |-> <<"name", "name", "u32", "u32", "u32", "u32", "u32">>,
   CAA |-> <<"u8", "tag", "value">>, DS |-> <<"u16", "u8", "u8", "rest">>,
   DNSKEY |-> <<"u16", "u8", "u8", "keyTag">>,
   LOC |-> <<"skip", "size", "size", "size", "u32", "u32", "u32">>,
   CERT |-> <<"u16", "u16", "u8", "rest">>,
   IPSECKEY |-> <<"u8", "gateway", "rest">>,
   RRSIG |-> <<"u16", "u8", "u8", "u32", "u32", "u32", "u16", "name", "rest">>,
   NSEC |-> <<"name", "types">>,
   NSEC3PARAM |-> <<"u8", "u8", "u16", "counted">>]

(* The fields of a record of a type; of an unknown type, a dump. *)
Layout(type) ==
  IF \E t \in DOMAIN TypeOf : TypeOf[t] = type
  THEN Layouts[CHOOSE t \in DOMAIN TypeOf : TypeOf[t] = type]
  ELSE <<"rest">>

(* A plausible slip: bytes that are missing are read as 0. *)
Fixed_PadsWithZeros(b, at, k) ==
  Read([i \in 1..k |-> IF Has(b, at, i) THEN U8(b, at + i - 1) ELSE 0], at + k)

Fixed(b, at, k) ==
  IF Has(b, at, k) THEN Read(Slice(b, at, at + k), at + k) ELSE Throws

(* A length and as many bytes, as far as there are any. *)
Counted8(b, at) ==
  IF Has(b, at, 1)
  THEN Read(Slice(b, at + 1, at + 1 + U8(b, at)), at + 1 + U8(b, at))
  ELSE Throws

(* decodeTxt: each chunk is decoded by itself. *)
Text(b, at, end) ==
  LET Chunks[pos \in Nat] ==
        IF pos >= end THEN Read(<<>>, pos)
        ELSE LET chunk == Counted8(b, pos)
             IN  IF chunk.ok
                 THEN [Chunks[chunk.next] EXCEPT !.value = Decoded(chunk.value) \o @]
                 ELSE Throws
  IN  Chunks[at]

(* dnskeyKeyTag *)
KeyTag(b, from, end) ==
  LET Ac[i \in 0..(end - from)] ==
        IF i = 0 THEN 0
        ELSE Ac[i - 1] + U8(b, from + i - 1) * (IF i % 2 = 1 THEN 256 ELSE 1)
      ac == Ac[end - from]
  IN  IF end > Len(b) THEN Throws
      ELSE Read((ac + ((ac \div 65536) % 65536)) % 65536, end)

(* decodeTypeBitmap: blocks of a window, a length and a bit map; the types *)
(* are listed block by block.                                              *)
Window(b, pos) ==
  LET IsSet(i) == (U8(b, pos + 2 + (i \div 8)) \div 2 ^ (7 - (i % 8))) % 2 = 1
  IN  {U8(b, pos) * 256 + i : i \in {j \in 0..(8 * U8(b, pos + 1) - 1) : IsSet(j)}}

Types(b, at, end) ==
  LET Blocks[pos \in Nat] ==
        IF pos + 2 > end THEN Read(<<>>, pos)
        ELSE IF ~ Has(b, pos, 2) \/ ~ Has(b, pos + 2, U8(b, pos + 1)) THEN Throws
        ELSE [Blocks[pos + 2 + U8(b, pos + 1)] EXCEPT !.value = <<Window(b, pos)>> \o @]
  IN  Blocks[at]

(* decodeLocSize, of a digit m and a power of ten e: m times 10^e, as the  *)
(* one <<m, e>> with the least m.                                          *)
Centimetres(m, e) == IF m = 0 THEN <<0, 0>> ELSE IF m = 10 THEN <<1, e + 1>> ELSE <<m, e>>
LocSize(b, at) ==
  IF Has(b, at, 1) THEN Read(Centimetres(U8(b, at) \div 16, U8(b, at) % 16), at + 1) ELSE Throws

(* Of an IPSECKEY: the type of the gateway, the algorithm, the gateway. *)
Gateway(b, at) ==
  IF ~ Has(b, at, 2) THEN Throws
  ELSE CASE U8(b, at) = 1 -> Fixed(b, at + 2, 4)
         [] U8(b, at) = 2 -> Fixed(b, at + 2, 16)
         [] U8(b, at) = 3 -> ReadName(b, at + 2)
         [] OTHER -> Read(<<>>, at + 2)

Field(f, b, at, start, end) ==
  CASE f \in DOMAIN Width -> Fixed(b, at, Width[f])
    [] f = "name" -> ReadName(b, at)
    [] f = "text" -> Text(b, at, end)
    [] f = "counted" -> Counted8(b, at)
    [] f = "rest" -> Read(Slice(b, at, end), end)
    [] f = "tag" -> AsText(Counted8(b, at))
    [] f = "value" -> AsText(Read(Slice(b, at, end), end))
    [] f = "size" -> LocSize(b, at)
    [] f = "keyTag" -> KeyTag(b, start, end)
    [] f = "types" -> Types(b, at, end)
    [] f = "gateway" -> Gateway(b, at)

DecodeRdata(b, type, start, end) ==
  LET fields == Layout(type)
      Fields[k \in 0..Len(fields)] ==
        IF k = 0 THEN Read(<<>>, start)
        ELSE LET read == Fields[k - 1]
                 r == Field(fields[k], b, read.next, start, end)
             IN  IF read.ok /\ r.ok THEN [r EXCEPT !.value = Append(read.value, @)] ELSE Throws
  IN  Fields[Len(fields)]

-----------------------------------------------------------------------------
(* decodeMessage *)

ReadHeader(m) ==
  /\ message' = m /\ offset' = 12
  /\ \/ /\ Has(m.bytes, 6, 2)
        /\ stage' = "questions" /\ left' = U16(m.bytes, 4)
     \/ /\ ~ Has(m.bytes, 6, 2)
        /\ stage' = "thrown" /\ UNCHANGED left
  /\ UNCHANGED answers

Question == ReadName(message.bytes, offset)

SkipQuestion ==
  /\ stage = "questions" /\ left > 0
  /\ Question.ok
  /\ offset' = Question.next + 4
  /\ left' = left - 1
  /\ UNCHANGED <<message, stage, answers>>

QuestionsDone ==
  /\ stage = "questions" /\ left = 0
  /\ stage' = "answers"
  /\ left' = U16(message.bytes, 6)
  /\ UNCHANGED <<message, offset, answers>>

(* The record at a byte, and where the next one is. *)
Record(b, at) ==
  LET name == ReadName(b, at)
      type == U16(b, name.next)
      start == name.next + 10
      end == start + U16(b, name.next + 8)
      rdata == DecodeRdata(b, type, start, end)
  IN  IF name.ok /\ Has(b, name.next, 10) /\ rdata.ok
      THEN Read([name |-> name.value, type |-> type,
                 ttl |-> Slice(b, name.next + 4, name.next + 8),
                 data |-> rdata.value], end)
      ELSE Throws

Answer == Record(message.bytes, offset)

DecodeAnswer ==
  /\ stage = "answers" /\ left > 0
  /\ Answer.ok
  /\ answers' = Append(answers, Answer.value)
  /\ offset' = Answer.next
  /\ left' = left - 1
  /\ UNCHANGED <<message, stage>>

ReturnMessage ==
  /\ stage = "answers" /\ left = 0
  /\ stage' = "fulfilled"
  /\ UNCHANGED <<message, offset, left, answers>>

ThrowOut ==
  /\ left > 0
  /\ \/ stage = "questions" /\ ~ Question.ok
     \/ stage = "answers" /\ ~ Answer.ok
  /\ stage' = "thrown"
  /\ UNCHANGED <<message, offset, left, answers>>

-----------------------------------------------------------------------------
(* encodeQuery.  A name is split at its dots, so that one that ends in a   *)
(* dot has an empty last label, and the empty name a single, empty one.    *)

(* A plausible slip: the dot at the end is left on. *)
Trimmed_Not(name) == name

Trimmed(name) == IF Len(name) > 1 /\ Last(name) = <<>> THEN Front(name) ELSE name

IsRoot(name) == Trimmed(name) = <<<<>>>>
Encodes(name) ==
  IsRoot(name) \/ \A i \in 1..Len(Trimmed(name)) : Len(Trimmed(name)[i]) \in 1..63

EncodeName(name) ==
  IF IsRoot(name) THEN <<0>>
  ELSE FlattenSeq([i \in 1..Len(Trimmed(name)) |->
                     <<Len(Trimmed(name)[i])>> \o Trimmed(name)[i]]) \o <<0>>

(* The header, the question and, for DNSSEC, an OPT record that sets DO. *)
EncodeQuery(q) ==
  <<0, 0, 1, 0, 0, 1, 0, 0, 0, 0, 0, IF q.dnssecOk THEN 1 ELSE 0>>
    \o EncodeName(q.name) \o <<q.type \div 256, q.type % 256, 0, 1>>
    \o (IF q.dnssecOk THEN <<0, 0, 41, 16, 0, 0, 0, 128, 0, 0, 0>> ELSE <<>>)

Encode(q) ==
  /\ \/ /\ Encodes(q.name)
        /\ message' = [sort |-> "query", bytes |-> EncodeQuery(q), meant |-> q]
        /\ stage' = "fulfilled"
     \/ /\ ~ Encodes(q.name)
        /\ message' = [sort |-> "query", bytes |-> <<>>, meant |-> q]
        /\ stage' = "thrown"
  /\ UNCHANGED <<offset, left, answers>>

WireNext ==
  \/ stage = "idle" /\ \E m \in Inputs : ReadHeader(m)
  \/ stage = "idle" /\ \E q \in Queries : Encode(q)
  \/ SkipQuestion \/ QuestionsDone \/ DecodeAnswer \/ ReturnMessage \/ ThrowOut

-----------------------------------------------------------------------------
WireTypeOK ==
  /\ message.sort \in Sorts \cup {"query"}
  /\ stage \in {"idle", "questions", "answers", "fulfilled", "thrown"}
  /\ offset \in Nat /\ left \in 0..65535
  /\ \A i \in 1..Len(answers) : answers[i].type \in 0..65535

(* A message comes out as the records it was encoded from, whatever the    *)
(* types of the records, each text as what its bytes say (U+FFFD where     *)
(* they say nothing, wire.ts:213, 357), and however its names share their  *)
(* endings through pointers: also a name of as many labels as there can    *)
(* be, each behind a pointer, which is not taken for a loop (wire.ts:200). *)
MeantIsDecoded ==
  message.sort = "whole" =>
    /\ stage # "thrown"
    /\ IsPrefix(answers, message.meant)
    /\ stage = "fulfilled" => answers = message.meant

(* A message of which the end is missing is refused, or all that is lost   *)
(* is the tail of a field that runs to the end of the last record: no      *)
(* number, name or record comes out other than it was sent (wire.ts:457).  *)
(* A text that is torn within a character ends in U+FFFD.                  *)
Torn(x, y) == IsPrefix(x, y) \/ \E k \in 0..Len(y) : x = SubSeq(y, 1, k) \o Replacement
Short(f, x, y) ==
  \/ f \in {"counted", "rest"} /\ IsPrefix(x, y)
  \/ f \in {"text", "tag", "value"} /\ Torn(x, y)
TailLost(a, m, k) == Short(Layout(m.type)[k], a.data[k], m.data[k])
SameButForATail(a, m) ==
  /\ [a EXCEPT !.data = m.data] = m
  /\ Len(a.data) = Len(m.data)
  /\ \A k \in 1..Len(m.data) : a.data[k] = m.data[k] \/ TailLost(a, m, k)
CutLosesOnlyATail ==
  message.sort = "cut" /\ stage = "fulfilled" =>
    /\ Front(message.meant) = Front(answers)
    /\ SameButForATail(Last(answers), Last(message.meant))

(* Where the name of a message's only question takes readName after some   *)
(* steps.  A root, and a place outside the message, is where it stays.     *)
Leads(b, pos) ==
  IF pos >= Len(b) \/ U8(b, pos) = 0 THEN pos
  ELSE IF U8(b, pos) < 192 THEN pos + 1 + U8(b, pos)
  ELSE IF Has(b, pos, 2) THEN U16(b, pos) - 192 * 256 ELSE Len(b)
ReachesRoot(b, at, steps) ==
  LET Place[k \in 0..steps] == IF k = 0 THEN at ELSE Leads(b, Place[k - 1])
  IN  Place[steps] < Len(b) /\ U8(b, Place[steps]) = 0

(* A question is let pass only if its name comes to the root: one that     *)
(* goes round in circles or leaves the message is refused, since a name    *)
(* that ends does so within as many steps as there are bytes.  What is     *)
(* refused has not come to the root within the rounds that there are ("DNS *)
(* name decompression loop", wire.ts:200).                                 *)
LoopsAreRefused ==
  LET b == message.bytes
  IN  message.sort # "query" /\ Has(b, 6, 2) /\ U16(b, 4) = 1 =>
        /\ stage \in {"answers", "fulfilled"} => ReachesRoot(b, 12, Len(b))
        /\ stage = "thrown" /\ U16(b, 6) = 0 => ~ ReachesRoot(b, 12, Rounds - 1)

(* Whatever encodeQuery sends, readName reads the labels that were asked for*)
(* out of it, the root included, unless it takes it for a loop: a name out *)
(* of a TXT record is sent as it is (records.ts:68) and may have as many   *)
(* labels as there are rounds.  The type comes behind the name, and nothing*)
(* else is sent.  What encodeQuery refuses has a label longer than 63      *)
(* bytes, or an empty one before the last (wire.ts:171).                   *)
QueryIsReadBack ==
  message.sort = "query" =>
    LET q == message.meant
        b == message.bytes
        name == ReadLabels(b, 12)
        AsName == IF name.value = <<>> THEN <<<<>>>> ELSE name.value
    IN  IF stage = "fulfilled"
        THEN /\ Len(q.name) < Rounds => name.ok
             /\ Len(q.name) > Rounds => ~ name.ok
             /\ name.ok =>
                  /\ q.name \in {AsName, Append(AsName, <<>>)}
                  /\ U16(b, name.next) = q.type
                  /\ Len(b) = name.next + 4 + 11 * U16(b, 10)
             /\ U16(b, 4) = 1 /\ U16(b, 6) = 0
             /\ U16(b, 10) = 1 <=> q.dnssecOk
        ELSE \E i \in 1..Len(q.name) :
               Len(q.name[i]) > 63 \/ (q.name[i] = <<>> /\ i < Len(q.name))

=============================================================================

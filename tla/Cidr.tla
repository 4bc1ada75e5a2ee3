-------------------------------- MODULE Cidr --------------------------------
(***************************************************************************)
(* The CIDR arithmetic of tools-core (ip/cidr.ts): rangeToCidrs, the loop  *)
(* that cuts an inclusive range of addresses into blocks, and describeCidr,*)
(* the subnet calculator.  Addresses are the numbers parseIp returns; what *)
(* it refuses is Null.  A behaviour is one call.  The loops of the code    *)
(* are steps here, so that the cover is an invariant of the loop.          *)
(***************************************************************************)
EXTENDS Integers, Sequences

CONSTANTS
  Bits,       \* Bits[v]: the width of an address of version v (32 and 128)
  Size,       \* Size[k] = 1n << k, for every k up to the larger width
  MaxBlocks,  \* out.length beyond which rangeToCidrs gives up (100_000)
  Null        \* what parseIp returns for text that is no address

Versions == {4, 6}
Shifts == 0..Bits[6]

ASSUME CidrAssumption ==
  /\ Bits \in [Versions -> Nat]
  /\ 1 < Bits[4] /\ Bits[4] <= Bits[6]
  /\ Size \in [Shifts -> Nat \ {0}]
  /\ Size[0] = 1
  /\ \A k \in Shifts : k > 0 => Size[k] = 2 * Size[k - 1]
  /\ MaxBlocks \in Nat

(* What describeCidr returns; it is not null. *)
Descriptions ==
  [version : Versions, value : Int, prefix : Int, networkAddress : Int, lastAddress : Int,
   hosts : [firstHost : Int, lastHost : Int, usableHosts : Int]]

ASSUME NullAssumption == Null \notin Descriptions

(* 0n .. maxValue(v) *)
Values(v) == 0..(Size[Bits[v]] - 1)
Addresses == UNION {[version : {v}, value : Values(v)] : v \in Versions}

VARIABLES
  pc,          \* where the call is
  version,     \* of both ends of the range
  first, last, \* the ends of the range
  start,       \* the first address not covered yet
  n,           \* what trailingZeros has left of start
  maxBits,     \* the host bits of the next block
  out,         \* the blocks so far
  info         \* what describeCidr returned, or Null

range == <<version, first, last>>
vars == <<pc, version, first, last, start, n, maxBits, out, info>>

Init ==
  /\ pc = "idle" /\ version = 4 /\ info = Null /\ out = <<>>
  /\ first = 0 /\ last = 0 /\ start = 0 /\ n = 0 /\ maxBits = 0

-----------------------------------------------------------------------------
(* rangeToCidrs *)

Accepts(a, b) ==
  a # Null /\ b # Null /\ a.version = b.version /\ a.value <= b.value

RangeToCidrs(a, b) ==
  /\ pc = "idle"
  /\ Accepts(a, b)
  /\ pc' = "loop"
  /\ version' = a.version
  /\ first' = a.value /\ start' = a.value /\ last' = b.value
  /\ UNCHANGED <<n, maxBits, out, info>>

Refuse(a, b) ==
  /\ pc = "idle"
  /\ ~ Accepts(a, b)
  /\ pc' = "rejected"
  /\ UNCHANGED <<range, start, n, maxBits, out, info>>

(* A plausible slip: 0 is not treated apart. *)
AtZero_CountsZeros ==
  /\ pc = "loop" /\ start <= last /\ start = 0
  /\ n' = start /\ maxBits' = 0
  /\ pc' = "zeros"
  /\ UNCHANGED <<range, start, out, info>>

AtZero ==
  /\ pc = "loop" /\ start <= last /\ start = 0
  /\ maxBits' = Bits[version]
  /\ pc' = "shrink"
  /\ UNCHANGED <<range, start, n, out, info>>

TrailingZeros ==
  /\ pc = "loop" /\ start <= last /\ start # 0
  /\ n' = start /\ maxBits' = 0
  /\ pc' = "zeros"
  /\ UNCHANGED <<range, start, out, info>>

Halve ==
  /\ pc = "zeros" /\ n % 2 = 0
  /\ n' = n \div 2 /\ maxBits' = maxBits + 1
  /\ UNCHANGED <<pc, range, start, out, info>>

Counted ==
  /\ pc = "zeros" /\ n % 2 # 0
  /\ maxBits' = IF maxBits > Bits[version] THEN Bits[version] ELSE maxBits
  /\ pc' = "shrink"
  /\ UNCHANGED <<range, start, n, out, info>>

(* Plausible slips: the addresses left are counted wrongly. *)
Fits_PastEnd(k) == k = 0 \/ Size[k] <= last - start + 2
Fits_BeforeEnd(k) == k = 0 \/ Size[k] <= last - start

(* The block of 2^k addresses from start on does not pass the end. *)
Fits(k) == k = 0 \/ Size[k] <= last - start + 1

Shrink ==
  /\ pc = "shrink" /\ ~ Fits(maxBits)
  /\ maxBits' = maxBits - 1
  /\ UNCHANGED <<pc, range, start, n, out, info>>

Emit ==
  /\ pc = "shrink" /\ Fits(maxBits)
  /\ out' = Append(out, [network |-> start, prefix |-> Bits[version] - maxBits])
  /\ start' = start + Size[maxBits]
  /\ pc' = IF Len(out') > MaxBlocks THEN "rejected" ELSE "loop"
  /\ UNCHANGED <<range, n, maxBits, info>>

Return ==
  /\ pc = "loop" /\ start > last
  /\ pc' = "fulfilled"
  /\ UNCHANGED <<range, start, n, maxBits, out, info>>

-----------------------------------------------------------------------------
(* describeCidr *)

(* The mask has its upper p bits set; `value & mask` clears the others. *)
MaskFor(v, p) == Size[Bits[v]] - Size[Bits[v] - p]
NetworkOf(v, x, p) == x - (x % Size[Bits[v] - p])
LastOf(v, x, p) == NetworkOf(v, x, p) + (Size[Bits[v]] - 1 - MaskFor(v, p))

(* A plausible slip: a /31 loses network and broadcast address as well. *)
Hosts_NoPointToPoint(v, x, p) ==
  LET network == NetworkOf(v, x, p)
      end == LastOf(v, x, p)
      total == Size[Bits[v] - p]
  IN  IF v = 4 /\ p < Bits[4]
      THEN [firstHost |-> network + 1, lastHost |-> end - 1, usableHosts |-> total - 2]
      ELSE [firstHost |-> network, lastHost |-> end, usableHosts |-> total]

(* The hosts of a block: without network and broadcast address below /31, *)
(* both addresses of a /31, and every address of version 6.                *)
Hosts(v, x, p) ==
  LET network == NetworkOf(v, x, p)
      end == LastOf(v, x, p)
      total == Size[Bits[v] - p]
      All == [firstHost |-> network, lastHost |-> end, usableHosts |-> total]
  IN  IF v = 4 /\ p < Bits[4] - 1
      THEN [firstHost |-> network + 1, lastHost |-> end - 1, usableHosts |-> total - 2]
      ELSE All

IsCidr(a, p) == a # Null /\ p <= Bits[a.version]

DescribeCidr(a, p) ==
  /\ pc = "idle"
  /\ IsCidr(a, p)
  /\ info' = [version |-> a.version, value |-> a.value, prefix |-> p,
              networkAddress |-> NetworkOf(a.version, a.value, p),
              lastAddress |-> LastOf(a.version, a.value, p),
              hosts |-> Hosts(a.version, a.value, p)]
  /\ pc' = "fulfilled"
  /\ UNCHANGED <<range, start, n, maxBits, out>>

RefuseCidr(a, p) ==
  /\ pc = "idle"
  /\ ~ IsCidr(a, p)
  /\ pc' = "rejected"
  /\ UNCHANGED <<range, start, n, maxBits, out, info>>

Next ==
  \/ \E a, b \in Addresses \cup {Null} : RangeToCidrs(a, b) \/ Refuse(a, b)
  \/ AtZero \/ TrailingZeros \/ Halve \/ Counted \/ Shrink \/ Emit \/ Return
  \/ \E a \in Addresses \cup {Null}, p \in 0..(Bits[6] + 1) :
       DescribeCidr(a, p) \/ RefuseCidr(a, p)

Spec == Init /\ [][Next]_vars

-----------------------------------------------------------------------------
Block(v, b) == b.network .. (b.network + Size[Bits[v] - b.prefix] - 1)

(* Types; in particular trailingZeros never counts past the width of an    *)
(* address, so that the loop on `start` that it runs ends.                 *)
TypeOK ==
  /\ pc \in {"idle", "loop", "zeros", "shrink", "fulfilled", "rejected"}
  /\ version \in Versions
  /\ first \in Values(version) /\ last \in Values(version)
  /\ start \in Nat /\ n \in Nat
  /\ maxBits \in 0..Bits[version]
  /\ out \in Seq([network : Values(version), prefix : 0..Bits[version]])

(* Whenever the loop comes round, its blocks cover the addresses before    *)
(* `start`, all of them, each once and no other; a block begins at a       *)
(* multiple of its size, as the notation demands.  So the list returned    *)
(* "exactly covers an inclusive IP range" (cidr.ts:129).                   *)
CoversExactly ==
  /\ \A x \in first..(start - 1) : \E i \in 1..Len(out) : x \in Block(version, out[i])
  /\ \A i \in 1..Len(out) :
       /\ Block(version, out[i]) \subseteq first..(start - 1)
       /\ \E q \in 0..out[i].network :
            out[i].network = q * Size[Bits[version] - out[i].prefix]
  /\ \A i, j \in 1..Len(out) : i # j => Block(version, out[i]) \cap Block(version, out[j]) = {}
  /\ pc = "fulfilled" /\ out # <<>> => start = last + 1

(* "Minimal set of CIDR blocks" (cidr.ts:129): what is returned is the set *)
(* of the largest blocks, as describeCidr sees blocks, that lie within the *)
(* range, and no range needs so many that the call gives up.               *)
AllBlocks == {[network |-> NetworkOf(version, x, p), prefix |-> p] :
                x \in Values(version), p \in 0..Bits[version]}
Inside == {b \in AllBlocks : Block(version, b) \subseteq first..last}
CoverIsMinimal ==
  /\ pc = "fulfilled" /\ info = Null =>
       {out[i] : i \in 1..Len(out)} =
         {b \in Inside : \A c \in Inside : Block(version, b) \subseteq Block(version, c) => b = c}
  /\ pc = "rejected" => out = <<>>

(* The host fields of describeCidr agree with each other at every prefix,  *)
(* /0, /31 and /32 included: as many hosts as the first and the last say,  *)
(* all in the block of the address asked about, and, of version 4, neither *)
(* its network nor its broadcast address, if the block has other ones.     *)
HostsMatchTheirNumber ==
  info # Null =>
    LET block == info.networkAddress .. info.lastAddress
        hosts == info.hosts.firstHost .. info.hosts.lastHost
    IN  /\ info.value \in block /\ hosts \subseteq block
        /\ info.hosts.usableHosts = info.hosts.lastHost - info.hosts.firstHost + 1
        /\ info.hosts.usableHosts > 0
        /\ info.version = 4 /\ info.prefix < Bits[4] - 1 =>
             hosts = block \ {info.networkAddress, info.lastAddress}

=============================================================================

------------------------------- MODULE Ip_proofs -------------------------------
(***************************************************************************)
(* Proofs about the arithmetic of addresses.                               *)
(*                                                                         *)
(* Cidr, for addresses of any width.  The invariant Inv adds to the cover  *)
(* what the inner loops keep: trailingZeros has divided start by as many   *)
(* twos as it has counted, so that the block about to be emitted begins at *)
(* a multiple of its size, and shrinking it preserves that.  Minimal adds  *)
(* what makes the cover a least one: every block is as wide as the range   *)
(* allows, and there are at most two of each size.                         *)
(*                                                                         *)
(* Address: the scope of an address and its canonical text.  What is       *)
(* defined by recursion (a numeral, the pass over the groups, FlattenSeq)  *)
(* is shown to exist with RecursionExists, and is reasoned about upwards   *)
(* from 0 with Upward.                                                     *)
(***************************************************************************)
EXTENDS PureTools, WellFoundedInduction, FiniteSetTheorems, TLAPS

Loop ==
  /\ first <= start /\ start <= last + 1
  /\ pc \in {"zeros", "shrink"} => start <= last
  /\ pc = "zeros" => n >= 1 /\ start = n * Size[maxBits]
  /\ pc = "shrink" => \E q \in 0..start : start = q * Size[maxBits]
  /\ pc = "idle" => out = <<>> /\ start = first /\ maxBits = 0

Inv == TypeOK /\ Loop /\ CoversExactly

-----------------------------------------------------------------------------
(* Arithmetic *)

(* The smaller factor of a product of naturals is at most the product. *)
LEMMA Product ==
  ASSUME NEW a \in Nat, NEW b \in Nat, b >= 1
  PROVE  a * b \in Nat /\ a <= a * b
<1>1. a * b \in Nat
  OBVIOUS
<1>2. PICK c \in Nat : b = c + 1
  BY b - 1 \in Nat
<1>3. a * (c + 1) = a * c + a
  OBVIOUS
<1>4. a * c \in Nat
  OBVIOUS
<1> QED
  BY <1>1, <1>2, <1>3, <1>4

(* The shifts of a version are among those Size is defined on. *)
LEMMA Widths ==
  ASSUME NEW v \in Versions
  PROVE  /\ Bits[v] \in Nat
         /\ 0..Bits[v] \subseteq Shifts
         /\ Size[Bits[v]] \in Nat /\ Size[Bits[v]] >= 1
BY CidrAssumption DEF CidrAssumption, Versions, Shifts

(* Sizes are positive, and each is twice the one before. *)
LEMMA Sizes ==
  ASSUME NEW v \in Versions, NEW k \in 0..Bits[v]
  PROVE  /\ Size[k] \in Nat /\ Size[k] >= 1
         /\ k > 0 => k - 1 \in 0..Bits[v] /\ Size[k] = 2 * Size[k - 1]
         /\ k = 0 => Size[k] = 1
<1>1. k \in Shifts
  BY Widths
<1>2. Bits[v] \in Nat
  BY Widths
<1> QED
  BY <1>1, <1>2, CidrAssumption DEF CidrAssumption, Shifts
-----------------------------------------------------------------------------
(* The invariant *)

(* No cover is needed before the loop has begun. *)
LEMMA EmptyCover ==
  /\ out = <<>> /\ start = first /\ first \in Nat => CoversExactly
  /\ out' = <<>> /\ start' = first' /\ first' \in Nat => CoversExactly'
<1>1. /\ out = <<>> => 1..Len(out) = {}
      /\ out' = <<>> => 1..Len(out') = {}
  OBVIOUS
<1>2. /\ start = first /\ first \in Nat => first..(start - 1) = {}
      /\ start' = first' /\ first' \in Nat => first'..(start' - 1) = {}
  OBVIOUS
<1> QED
  BY <1>1, <1>2 DEF CoversExactly

(* Steps that emit nothing and do not return leave the cover as it is. *)
LEMMA SameCover ==
  ASSUME CoversExactly, UNCHANGED <<range, start, out>>, pc' # "fulfilled"
  PROVE  CoversExactly'
BY DEF CoversExactly, Block, range

LEMMA InitInv == Init => Inv
<1> SUFFICES ASSUME Init
             PROVE  Inv
  OBVIOUS
<1> USE DEF Init
<1>1. version \in Versions
  BY DEF Versions
<1>2. TypeOK
  BY <1>1, Widths DEF TypeOK, Values
<1>3. Loop
  BY DEF Loop
<1>4. CoversExactly
  BY EmptyCover
<1> QED
  BY <1>2, <1>3, <1>4 DEF Inv

(* A block that fits is emitted: it joins the cover at its end. *)
LEMMA EmitInv ==
  ASSUME Inv, Emit
  PROVE  Inv'
<1> DEFINE size == Size[maxBits]
           new == [network |-> start, prefix |-> Bits[version] - maxBits]
<1> USE DEF Emit
<1>1. /\ version \in Versions /\ maxBits \in 0..Bits[version] /\ Bits[version] \in Nat
      /\ first \in Nat /\ last \in Nat /\ start \in Nat /\ first <= start /\ start <= last
      /\ last <= Size[Bits[version]] - 1
  BY Widths DEF Inv, TypeOK, Loop, Values
<1>2. size \in Nat /\ size >= 1
  BY <1>1, Sizes
<1>3. start + size <= last + 1
  <2>1. CASE maxBits = 0
    BY <2>1, <1>1, Sizes
  <2>2. CASE maxBits # 0
    BY <2>2, <1>1, <1>2 DEF Fits
  <2> QED
    BY <2>1, <2>2
<1>4. /\ UNCHANGED <<version, first, last, maxBits, n>>
      /\ start' = start + size /\ start' \in Nat
      /\ pc' \in {"loop", "rejected"}
      /\ out' = Append(out, new)
  BY <1>1, <1>2 DEF range
<1>5. out \in Seq([network : Values(version), prefix : 0..Bits[version]])
  BY DEF Inv, TypeOK
<1>6. new \in [network : Values(version), prefix : 0..Bits[version]]
  <2>1. start \in Values(version)
    BY <1>1, Widths DEF Values
  <2>2. Bits[version] - maxBits \in 0..Bits[version]
    BY <1>1
  <2> QED
    BY <2>1, <2>2
<1>7. TypeOK'
  <2>1. out' \in Seq([network : Values(version), prefix : 0..Bits[version]])
    BY <1>4, <1>5, <1>6
  <2> QED
    BY <1>4, <2>1 DEF Inv, TypeOK, Values
<1>8. Loop'
  BY <1>1, <1>2, <1>3, <1>4 DEF Loop
<1>9. CoversExactly'
  <2>1. /\ Len(out) \in Nat /\ Len(out') = Len(out) + 1
        /\ \A i \in 1..Len(out) : out'[i] = out[i]
        /\ out'[Len(out) + 1] = new
    BY <1>4, <1>5, <1>6
  <2>2. \A i \in 1..Len(out) : Block(version', out'[i]) = Block(version, out[i])
    BY <1>4, <2>1 DEF Block
  <2>3. Bits[version] - new.prefix = maxBits
    BY <1>1
  <2>4. Block(version', out'[Len(out) + 1]) = start..(start + size - 1)
    BY <1>4, <2>1, <2>3 DEF Block
  <2>5. \A i \in 1..Len(out') : i \in 1..Len(out) \/ i = Len(out) + 1
    BY <2>1
  <2>6. \A x \in first'..(start' - 1) : \E i \in 1..Len(out') : x \in Block(version', out'[i])
    <3> SUFFICES ASSUME NEW x \in first'..(start' - 1)
                 PROVE  \E i \in 1..Len(out') : x \in Block(version', out'[i])
      OBVIOUS
    <3>0. x \in Int /\ first <= x /\ x <= start + size - 1
      BY <1>1, <1>2, <1>4
    <3>1. CASE x < start
      <4>1. PICK i \in 1..Len(out) : x \in Block(version, out[i])
        BY <3>0, <3>1, <1>1 DEF Inv, CoversExactly
      <4> QED
        BY <4>1, <2>1, <2>2
    <3>2. CASE x >= start
      <4>1. x \in Block(version', out'[Len(out) + 1])
        BY <3>0, <3>2, <1>1, <1>2, <2>4
      <4> QED
        BY <4>1, <2>1
    <3> QED
      BY <3>0, <3>1, <3>2, <1>1
  <2>7. \A i \in 1..Len(out') :
          /\ Block(version', out'[i]) \subseteq first'..(start' - 1)
          /\ \E q \in 0..out'[i].network :
               out'[i].network = q * Size[Bits[version'] - out'[i].prefix]
    <3> SUFFICES ASSUME NEW i \in 1..Len(out')
                 PROVE  /\ Block(version', out'[i]) \subseteq first'..(start' - 1)
                        /\ \E q \in 0..out'[i].network :
                             out'[i].network = q * Size[Bits[version'] - out'[i].prefix]
      OBVIOUS
    <3>1. CASE i \in 1..Len(out)
      <4>1. Block(version, out[i]) \subseteq first..(start - 1)
        BY <3>1 DEF Inv, CoversExactly
      <4>2. Block(version', out'[i]) \subseteq first'..(start' - 1)
        BY <3>1, <4>1, <1>1, <1>2, <1>4, <2>2
      <4>3. \E q \in 0..out[i].network :
              out[i].network = q * Size[Bits[version] - out[i].prefix]
        BY <3>1 DEF Inv, CoversExactly
      <4> QED
        BY <3>1, <4>2, <4>3, <1>4, <2>1
    <3>2. CASE i = Len(out) + 1
      <4>1. Block(version', out'[i]) \subseteq first'..(start' - 1)
        BY <3>2, <1>1, <1>2, <1>4, <2>4, SMTT(30)
      <4>2. out'[i] = new /\ new.network = start
        BY <3>2, <2>1
      <4>3. \E q \in 0..start : start = q * size
        BY DEF Inv, Loop
      <4> QED
        BY <4>1, <4>2, <4>3, <1>4, <2>3
    <3> QED
      BY <3>1, <3>2, <2>5
  <2>8. \A i, j \in 1..Len(out') : i # j => Block(version', out'[i]) \cap Block(version', out'[j]) = {}
    <3>1. \A i \in 1..Len(out) : Block(version, out[i]) \cap (start..(start + size - 1)) = {}
      <4> SUFFICES ASSUME NEW i \in 1..Len(out)
                   PROVE  Block(version, out[i]) \cap (start..(start + size - 1)) = {}
        OBVIOUS
      <4>1. Block(version, out[i]) \subseteq first..(start - 1)
        BY DEF Inv, CoversExactly
      <4> QED
        BY <4>1, <1>1, <1>2
    <3>2. \A i, j \in 1..Len(out) : i # j => Block(version, out[i]) \cap Block(version, out[j]) = {}
      BY DEF Inv, CoversExactly
    <3> SUFFICES ASSUME NEW i \in 1..Len(out'), NEW j \in 1..Len(out'), i # j
                 PROVE  Block(version', out'[i]) \cap Block(version', out'[j]) = {}
      OBVIOUS
    <3>3. CASE i \in 1..Len(out) /\ j \in 1..Len(out)
      BY <3>2, <3>3, <2>2
    <3>4. CASE i \in 1..Len(out) /\ j = Len(out) + 1
      BY <3>1, <3>4, <2>2, <2>4
    <3>5. CASE i = Len(out) + 1 /\ j \in 1..Len(out)
      BY <3>1, <3>5, <2>2, <2>4
    <3> QED
      BY <3>3, <3>4, <3>5, <2>5
  <2> QED
    BY <1>4, <2>6, <2>7, <2>8 DEF CoversExactly
<1> QED
  BY <1>7, <1>8, <1>9 DEF Inv

(* The steps that set up and shrink a block keep the invariant as well. *)
LEMMA RoundInv ==
  ASSUME Inv, AtZero \/ TrailingZeros \/ Halve \/ Counted \/ Shrink
  PROVE  Inv'
<1>1. /\ version \in Versions /\ maxBits \in 0..Bits[version] /\ Bits[version] \in Nat
      /\ first \in Nat /\ last \in Nat /\ start \in Nat /\ n \in Nat
      /\ last <= Size[Bits[version]] - 1
      /\ Size[Bits[version]] \in Nat
  BY Widths DEF Inv, TypeOK, Values
<1>2. /\ UNCHANGED <<version, first, last, start, out>>
      /\ pc' \in {"zeros", "shrink"}
      /\ start <= last
  BY DEF AtZero, TrailingZeros, Halve, Counted, Shrink, range, Inv, Loop
<1>3. CoversExactly'
  BY <1>2, SameCover DEF Inv, range
<1>4. /\ n' \in Nat /\ maxBits' \in 0..Bits[version]
      /\ pc' = "zeros" => n' >= 1 /\ start = n' * Size[maxBits']
      /\ pc' = "shrink" => \E q \in 0..start : start = q * Size[maxBits']
  <2>1. CASE AtZero
    <3>1. start = 0 * Size[maxBits']
      BY <2>1, <1>1 DEF AtZero
    <3> QED
      BY <2>1, <3>1, <1>1 DEF AtZero
  <2>2. CASE TrailingZeros
    <3>1. Size[0] = 1
      BY CidrAssumption DEF CidrAssumption
    <3>2. start = start * 1
      BY <1>1
    <3> QED
      BY <2>2, <3>1, <3>2, <1>1 DEF TrailingZeros
  <2>3. CASE Halve
    <3>1. /\ n >= 1 /\ start = n * Size[maxBits] /\ n % 2 = 0
          /\ pc' = "zeros" /\ n' = n \div 2 /\ maxBits' = maxBits + 1
      BY <2>3 DEF Halve, Inv, Loop
    <3>2. n' \in Nat /\ n = 2 * n' /\ n' >= 1
      BY <3>1, <1>1
    <3>3. Size[maxBits] \in Nat /\ Size[maxBits] >= 1
      BY <1>1, Sizes
    <3>4. maxBits # Bits[version]
      <4>1. SUFFICES ASSUME maxBits = Bits[version]
                     PROVE  FALSE
        OBVIOUS
      <4>2. start = Size[maxBits] * n
        BY <3>1, <3>3, <1>1
      <4>3. Size[maxBits] <= start
        BY <3>1, <3>3, <4>2, <1>1, Product
      <4> QED
        BY <4>1, <4>3, <1>1, <1>2
    <3>5. maxBits' \in 0..Bits[version] /\ maxBits' > 0
      BY <3>1, <3>4, <1>1
    <3>6. Size[maxBits'] = 2 * Size[maxBits]
      BY <3>1, <3>5, <1>1, Sizes
    <3>7. start = n' * Size[maxBits']
      BY <3>1, <3>2, <3>3, <3>6
    <3> QED
      BY <3>1, <3>2, <3>5, <3>7
  <2>4. CASE Counted
    <3>1. /\ start = n * Size[maxBits] /\ maxBits' = maxBits /\ n' = n /\ pc' = "shrink"
      BY <2>4, <1>1 DEF Counted, Inv, Loop
    <3>2. Size[maxBits] \in Nat /\ Size[maxBits] >= 1
      BY <1>1, Sizes
    <3>3. n <= start
      BY <3>1, <3>2, <1>1, Product
    <3> QED
      BY <3>1, <3>3, <1>1
  <2>5. CASE Shrink
    <3>1. /\ maxBits # 0 /\ maxBits' = maxBits - 1 /\ n' = n /\ pc' = "shrink"
      BY <2>5 DEF Shrink, Fits
    <3>2. maxBits' \in 0..Bits[version] /\ Size[maxBits] = 2 * Size[maxBits']
      BY <3>1, <1>1, Sizes
    <3>3. Size[maxBits'] \in Nat /\ Size[maxBits'] >= 1
      BY <3>2, <1>1, Sizes
    <3>4. PICK q \in 0..start : start = q * Size[maxBits]
      BY <2>5 DEF Shrink, Inv, Loop
    <3>5. 2 * q \in Nat /\ start = (2 * q) * Size[maxBits']
      BY <3>2, <3>3, <3>4, <1>1
    <3>6. 2 * q <= start
      BY <3>3, <3>5, Product
    <3> QED
      BY <3>1, <3>2, <3>5, <3>6, <1>1
  <2> QED
    BY <2>1, <2>2, <2>3, <2>4, <2>5
<1>5. TypeOK'
  BY <1>2, <1>4 DEF Inv, TypeOK, Values
<1>6. Loop'
  BY <1>2, <1>4 DEF Inv, Loop
<1> QED
  BY <1>3, <1>5, <1>6 DEF Inv

(* A call that is accepted enters the loop with nothing covered. *)
LEMMA AcceptInv ==
  ASSUME Inv,
         NEW a \in Addresses \cup {Null}, NEW b \in Addresses \cup {Null},
         RangeToCidrs(a, b)
  PROVE  Inv'
<1>1. /\ out' = <<>> /\ start' = first' /\ pc' = "loop" /\ UNCHANGED <<n, maxBits>>
      /\ version' = a.version /\ first' = a.value /\ last' = b.value
      /\ a # Null /\ b # Null /\ a.version = b.version /\ a.value <= b.value
      /\ maxBits = 0 /\ n \in Nat
  BY DEF RangeToCidrs, Accepts, Inv, Loop, TypeOK
<1>2. /\ version' \in Versions
      /\ first' \in Values(version') /\ last' \in Values(version')
  BY <1>1 DEF Addresses
<1>3. first' \in Nat /\ last' \in Nat /\ Bits[version'] \in Nat
  BY <1>2, Widths DEF Values
<1>4. TypeOK'
  BY <1>1, <1>2, <1>3 DEF TypeOK
<1>5. Loop'
  BY <1>1, <1>3 DEF Loop
<1>6. CoversExactly'
  BY <1>1, <1>3, EmptyCover
<1> QED
  BY <1>4, <1>5, <1>6 DEF Inv

LEMMA NextInv == Inv /\ [Next]_vars => Inv'
<1> SUFFICES ASSUME Inv, [Next]_vars
             PROVE  Inv'
  OBVIOUS
<1>1. ASSUME NEW a \in Addresses \cup {Null}, NEW b \in Addresses \cup {Null},
             RangeToCidrs(a, b)
      PROVE  Inv'
  BY <1>1, AcceptInv
<1>2. ASSUME pc' = "rejected", pc = "idle", UNCHANGED <<range, start, n, maxBits, out>>
      PROVE  Inv'
  <2>1. CoversExactly'
    BY <1>2, SameCover DEF Inv
  <2>2. TypeOK' /\ Loop'
    BY <1>2 DEF Inv, TypeOK, Loop, range, Values
  <2> QED
    BY <2>1, <2>2 DEF Inv
<1>3. CASE AtZero \/ TrailingZeros \/ Halve \/ Counted \/ Shrink
  BY <1>3, RoundInv
<1>4. CASE Emit
  BY <1>4, EmitInv
<1>5. CASE Return
  <2>1. start = last + 1
    BY <1>5 DEF Return, Inv, Loop, TypeOK, Values
  <2>2. CoversExactly'
    BY <1>5, <2>1 DEF Return, Inv, CoversExactly, Block, range
  <2>3. TypeOK' /\ Loop'
    BY <1>5 DEF Return, Inv, TypeOK, Loop, range, Values
  <2> QED
    BY <2>2, <2>3 DEF Inv
<1>6. ASSUME NEW a \in Addresses \cup {Null}, NEW p \in 0..(Bits[6] + 1), DescribeCidr(a, p)
      PROVE  Inv'
  <2>1. /\ pc' = "fulfilled" /\ pc = "idle" /\ UNCHANGED <<version, first, last, start, n, maxBits, out>>
        /\ out = <<>> /\ start = first /\ first \in Nat
    BY <1>6 DEF DescribeCidr, range, Inv, Loop, TypeOK, Values
  <2>2. CoversExactly'
    BY <2>1, EmptyCover
  <2>3. TypeOK' /\ Loop'
    BY <2>1 DEF Inv, TypeOK, Loop, Values
  <2> QED
    BY <2>2, <2>3 DEF Inv
<1>7. CASE UNCHANGED vars
  <2>1. TypeOK' /\ Loop'
    BY <1>7 DEF vars, Inv, TypeOK, Loop, Values
  <2>2. CoversExactly'
    BY <1>7 DEF vars, Inv, CoversExactly, Block, range
  <2> QED
    BY <2>1, <2>2 DEF Inv
<1> QED
  BY <1>1, <1>2, <1>3, <1>4, <1>5, <1>6, <1>7 DEF Next, Refuse, RefuseCidr

THEOREM SpecInv == Spec => []Inv
BY InitInv, NextInv, PTL DEF Spec

(* The loops stay within their types, for addresses of any width:          *)
(* trailingZeros stops before it has counted past the width of an address. *)
THEOREM CidrTyping == Spec => []TypeOK
BY SpecInv, PTL DEF Inv

(* rangeToCidrs covers any range exactly: every address of the range is in *)
(* one block and no other address is in any, and each block is aligned.    *)
THEOREM ExactCover == Spec => []CoversExactly
BY SpecInv, PTL DEF Inv

-----------------------------------------------------------------------------
(* The subnet calculator *)

LEMMA Remainder ==
  ASSUME NEW x \in Nat, NEW s \in Nat, s >= 1
  PROVE  x % s \in 0..(s - 1) /\ x % s <= x
OBVIOUS

(* The number of hosts is right for every address and every prefix. *)
LEMMA DescribedHosts ==
  ASSUME NEW a \in Addresses, NEW p \in 0..Bits[a.version], DescribeCidr(a, p)
  PROVE  HostsMatchTheirNumber'
<1> DEFINE v == a.version
           size == Size[Bits[v] - p]
           net == NetworkOf(v, a.value, p)
<1>1. v \in Versions /\ a.value \in Nat /\ Bits[v] \in Nat /\ Bits[v] - p \in 0..Bits[v]
  BY Widths DEF Addresses, Values
<1>2. size \in Nat /\ size >= 1
  BY <1>1, Sizes
<1>3. /\ net \in Nat /\ net <= a.value /\ a.value <= net + size - 1
      /\ LastOf(v, a.value, p) = net + size - 1
  <2>1. a.value % size \in 0..(size - 1) /\ a.value % size <= a.value
    BY <1>1, <1>2, Remainder
  <2>2. net = a.value - (a.value % size)
    BY DEF NetworkOf
  <2>3. LastOf(v, a.value, p) = net + (Size[Bits[v]] - 1 - (Size[Bits[v]] - size))
    BY DEF LastOf, MaskFor
  <2>4. Size[Bits[v]] \in Nat
    BY <1>1, Widths
  <2> HIDE DEF size, net
  <2> QED
    BY <1>1, <1>2, <2>1, <2>2, <2>3, <2>4
<1>4. ASSUME v = 4, p < Bits[4] - 1
      PROVE  size >= 4
  <2>1. /\ Bits[v] - p > 1
        /\ Bits[v] - p - 1 \in 0..Bits[v] /\ Bits[v] - p - 2 \in 0..Bits[v]
    BY <1>1, <1>4
  <2>2. /\ size = 2 * Size[Bits[v] - p - 1]
        /\ Size[Bits[v] - p - 1] = 2 * Size[Bits[v] - p - 1 - 1]
        /\ Size[Bits[v] - p - 2] \in Nat /\ Size[Bits[v] - p - 2] >= 1
    BY <1>1, <2>1, Sizes
  <2> QED
    BY <2>1, <2>2, <1>1
<1> DEFINE hosts == info'.hosts
<1>5. /\ info'.version = v /\ info'.value = a.value /\ info'.prefix = p
      /\ info'.networkAddress = net /\ info'.lastAddress = net + size - 1
      /\ hosts = Hosts(v, a.value, p)
  BY <1>3 DEF DescribeCidr
<1>6. CASE v = 4 /\ p < Bits[4] - 1
  <2>1. /\ hosts.firstHost = net + 1 /\ hosts.lastHost = net + size - 1 - 1
        /\ hosts.usableHosts = size - 2
    <3>1. Hosts(v, a.value, p) = [firstHost |-> net + 1, lastHost |-> net + size - 1 - 1,
                                  usableHosts |-> size - 2]
      BY <1>1, <1>2, <1>3, <1>6 DEF Hosts
    <3>2. hosts = Hosts(v, a.value, p)
      BY <1>5
    <3> HIDE DEF v, size, net, hosts
    <3> QED
      BY <3>1, <3>2
  <2>2. size >= 4
    BY <1>4, <1>6
  <2> HIDE DEF v, size, net, hosts
  <2>3. (net + 1)..(net + size - 1 - 1) = (net..(net + size - 1)) \ {net, net + size - 1}
    BY <1>2, <1>3, <2>2
  <2>4. size - 2 = (net + size - 1 - 1) - (net + 1) + 1 /\ size - 2 > 0
    BY <1>2, <1>3, <2>2
  <2>5. a.value \in net..(net + size - 1)
    BY <1>1, <1>2, <1>3
  <2> QED
    BY <1>5, <2>1, <2>3, <2>4, <2>5 DEF HostsMatchTheirNumber, hosts
<1>7. CASE ~ (v = 4 /\ p < Bits[4] - 1)
  <2>1. /\ hosts.firstHost = net /\ hosts.lastHost = net + size - 1
        /\ hosts.usableHosts = size
    BY <1>3, <1>5, <1>7 DEF Hosts
  <2> HIDE DEF v, size, net, hosts
  <2>2. size = (net + size - 1) - net + 1 /\ size > 0
    BY <1>2, <1>3
  <2>3. a.value \in net..(net + size - 1)
    BY <1>1, <1>2, <1>3
  <2> QED
    BY <1>5, <1>7, <2>1, <2>2, <2>3 DEF HostsMatchTheirNumber, hosts
<1> QED
  BY <1>6, <1>7

(* The fields of describeCidr agree, at every prefix of every version.     *)
THEOREM HostsAgree == Spec => []HostsMatchTheirNumber
<1>1. Init => HostsMatchTheirNumber
  BY DEF Init, HostsMatchTheirNumber
<1>2. HostsMatchTheirNumber /\ [Next]_vars => HostsMatchTheirNumber'
  <2> SUFFICES ASSUME HostsMatchTheirNumber, [Next]_vars
               PROVE  HostsMatchTheirNumber'
    OBVIOUS
  <2>1. ASSUME NEW a \in Addresses \cup {Null}, NEW p \in 0..(Bits[6] + 1), DescribeCidr(a, p)
        PROVE  HostsMatchTheirNumber'
    <3>1. a \in Addresses /\ p \in 0..Bits[a.version]
      BY <2>1, Widths DEF DescribeCidr, IsCidr, Addresses
    <3> QED
      BY <2>1, <3>1, DescribedHosts
  <2>2. CASE UNCHANGED info
    BY <2>2 DEF HostsMatchTheirNumber
  <2> QED
    BY <2>1, <2>2 DEF Next, vars, RangeToCidrs, Refuse, AtZero, TrailingZeros, Halve,
                      Counted, Shrink, Emit, Return, RefuseCidr
<1> QED
  BY <1>1, <1>2, PTL DEF Spec

-----------------------------------------------------------------------------
(* The cover is minimal.  Blocks are nested or disjoint, so it suffices    *)
(* that each block emitted is the largest that begins at `start', and that *)
(* no block within the range reaches across `start': a larger block that   *)
(* contained one emitted would do either.                                  *)

Multiple(x, s) == \E q \in Nat : x = q * s

(* Once trailingZeros has counted, a larger block at `start' passes the    *)
(* end of the range.                                                       *)
Largest ==
  \A k \in 0..Bits[version] :
    k > maxBits /\ Multiple(start, Size[k]) => last - start + 1 < Size[k]

NoneAcross ==
  \A c \in Inside : c.network < start => c.network + Size[Bits[version] - c.prefix] <= start

Maximal ==
  \A i \in 1..Len(out) :
    /\ out[i] \in Inside
    /\ \A c \in Inside : Block(version, out[i]) \subseteq Block(version, c) => out[i] = c

(* The blocks grow with the twos in `start' until the end of the range is  *)
(* what limits them; from then on each is smaller than the one before.     *)
Growing(k) == Multiple(start, Size[k]) /\ Len(out) <= k
Shrinking(k) ==
  /\ Multiple(start, Size[k]) /\ last - start + 1 < Size[k]
  /\ Len(out) + k <= 2 * Bits[version]
Few == \E k \in 0..Bits[version] : Growing(k) \/ Shrinking(k)

Minimal ==
  /\ pc = "shrink" => Largest
  /\ NoneAcross /\ Maximal
  /\ pc = "fulfilled" /\ info = Null => start = last + 1
  /\ Few
  /\ pc = "rejected" => out = <<>>

-----------------------------------------------------------------------------
(* Multiples *)

(* The order of the natural numbers is well-founded ... *)
LEMMA LessIsWellFounded ==
  \E R : IsWellFoundedOn(R, Nat) /\ \A x, y \in Nat : x < y => <<x, y>> \in R
<1> DEFINE R == OpToRel(<, Nat)
<1>1. IsWellFoundedOn(R, Nat)
  BY NatLessThanWellFounded
<1>2. \A x, y \in Nat : x < y => <<x, y>> \in R
  BY DEF OpToRel
<1> HIDE DEF R
<1> QED
  BY <1>1, <1>2

(* ... so what holds of some number holds of a least one. *)
LEMMA LeastNatural ==
  ASSUME NEW S \in SUBSET Nat, S # {}
  PROVE  \E m \in S : \A k \in S : m <= k
<1>1. PICK R : IsWellFoundedOn(R, Nat) /\ \A x, y \in Nat : x < y => <<x, y>> \in R
  BY LessIsWellFounded
<1>2. IsWellFoundedOn(R, Nat) /\ S \subseteq Nat /\ S # {}
  BY <1>1
<1>3. \E x \in S : \A y \in S : ~(<<y, x>> \in R)
  <2>1. IsWellFoundedOn(R, Nat)
    BY <1>2
  <2>2. S \subseteq Nat /\ S # {}
    BY <1>2
  <2> QED
    BY <2>1, <2>2, WFMin
<1>4. PICK m \in S : \A k \in S : ~(<<k, m>> \in R)
  BY <1>3
<1>5. \A k \in S : ~(k < m)
  BY <1>1, <1>4
<1> QED
  BY <1>4, <1>5

LEMMA Times ==
  ASSUME NEW a \in Nat, NEW b \in Nat, NEW s \in Nat, s >= 1
  PROVE  /\ a * s \in Nat /\ b * s \in Nat
         /\ a <= b => a * s <= b * s
         /\ a < b => a * s + s <= b * s
<1>1. a * s \in Nat /\ b * s \in Nat
  OBVIOUS
<1>2. ASSUME a <= b PROVE a * s <= b * s
  <2>1. PICK d \in Nat : b = a + d
    BY <1>2, b - a \in Nat
  <2>2. (a + d) * s = a * s + d * s /\ d * s \in Nat
    OBVIOUS
  <2> QED
    BY <2>1, <2>2
<1>3. ASSUME a < b PROVE a * s + s <= b * s
  <2>1. PICK d \in Nat : b = a + 1 + d
    BY <1>3, b - a - 1 \in Nat
  <2>2. (a + 1 + d) * s = a * s + s + d * s /\ d * s \in Nat
    OBVIOUS
  <2> QED
    BY <2>1, <2>2
<1> QED
  BY <1>1, <1>2, <1>3

(* A size is a multiple of every smaller one: were there a shift for which *)
(* it is not, consider the least.                                          *)
LEMMA SizeDivides ==
  ASSUME NEW v \in Versions, NEW k \in 0..Bits[v], NEW j \in k..Bits[v]
  PROVE  \E q \in Nat : q >= 1 /\ Size[j] = q * Size[k]
<1> DEFINE Divides(m) == \E q \in Nat : q >= 1 /\ Size[m] = q * Size[k]
           S == {m \in k..Bits[v] : ~ Divides(m)}
<1>1. Bits[v] \in Nat /\ k \in Nat /\ Size[k] \in Nat /\ S \subseteq k..Bits[v] /\ S \in SUBSET Nat
  BY Widths, Sizes
<1>2. CASE S = {}
  BY <1>2
<1>3. CASE S # {}
  <2>1. PICK m \in S : \A i \in S : m <= i
    <3> HIDE DEF S
    <3> QED
      BY <1>1, <1>3, LeastNatural
  <2>2. m # k
    <3>1. Size[k] = 1 * Size[k]
      BY <1>1
    <3>2. Divides(k)
      BY <3>1
    <3> QED
      BY <3>2
  <2>3. m - 1 \in k..Bits[v] /\ m \in 0..Bits[v] /\ m > 0 /\ ~(m <= m - 1)
    BY <1>1, <2>2
  <2>4. Divides(m - 1)
    BY <2>1, <2>3
  <2>5. PICK q \in Nat : q >= 1 /\ Size[m - 1] = q * Size[k]
    BY <2>4
  <2>6. Size[m] = 2 * Size[m - 1]
    BY <2>3, Sizes
  <2>7. 2 * (q * Size[k]) = (2 * q) * Size[k] /\ 2 * q \in Nat /\ 2 * q >= 1
    BY <1>1, <2>5
  <2>8. Divides(m)
    BY <2>5, <2>6, <2>7
  <2> QED
    BY <2>1, <2>8
<1> QED
  BY <1>2, <1>3

LEMMA Interval ==
  ASSUME NEW a \in Nat, NEW b \in Nat, NEW s \in Nat, NEW t \in Nat, a <= b, b + s <= a + t
  PROVE  b .. (b + s - 1) \subseteq a .. (a + t - 1)
OBVIOUS

LEMMA SizeGrows ==
  ASSUME NEW v \in Versions, NEW k \in 0..Bits[v], NEW j \in 0..Bits[v]
  PROVE  /\ k <= j => Size[k] <= Size[j]
         /\ k < j => 2 * Size[k] <= Size[j] /\ k + 1 \in 0..Bits[v] /\ Size[k + 1] = 2 * Size[k]
<1>1. Bits[v] \in Nat /\ Size[k] \in Nat /\ Size[j] \in Nat
  BY Widths, Sizes
<1>2. ASSUME NEW i \in 0..Bits[v], i <= j PROVE Size[i] <= Size[j]
  <2>1. j \in i..Bits[v] /\ Size[i] \in Nat
    BY <1>1, <1>2, Sizes
  <2>2. PICK q \in Nat : q >= 1 /\ Size[j] = q * Size[i]
    BY <2>1, SizeDivides
  <2>3. q * Size[i] = Size[i] * q
    BY <2>1
  <2> QED
    BY <2>1, <2>2, <2>3, Product
<1>3. ASSUME k < j PROVE 2 * Size[k] <= Size[j] /\ k + 1 \in 0..Bits[v] /\ Size[k + 1] = 2 * Size[k]
  <2>1. k + 1 \in 0..Bits[v] /\ k + 1 <= j /\ k + 1 > 0 /\ (k + 1) - 1 = k
    BY <1>1, <1>3
  <2>2. Size[k + 1] = 2 * Size[k]
    BY <2>1, Sizes
  <2> QED
    BY <1>2, <2>1, <2>2
<1> QED
  BY <1>2, <1>3

LEMMA MultipleOfSmaller ==
  ASSUME NEW v \in Versions, NEW k \in 0..Bits[v], NEW j \in k..Bits[v],
         NEW x \in Nat, Multiple(x, Size[j])
  PROVE  Multiple(x, Size[k])
<1>1. Bits[v] \in Nat /\ Size[k] \in Nat
  BY Widths, Sizes
<1>2. PICK q \in Nat : q >= 1 /\ Size[j] = q * Size[k]
  BY SizeDivides
<1>3. PICK p \in Nat : x = p * Size[j]
  BY DEF Multiple
<1>4. p * (q * Size[k]) = (p * q) * Size[k] /\ p * q \in Nat
  BY <1>1
<1> QED
  BY <1>2, <1>3, <1>4 DEF Multiple

(* Blocks that share an address are nested. *)
LEMMA Nested ==
  ASSUME NEW v \in Versions, NEW k \in 0..Bits[v], NEW j \in k..Bits[v],
         NEW a \in Nat, Multiple(a, Size[j]),
         NEW b \in Nat, Multiple(b, Size[k]),
         a < b + Size[k], b < a + Size[j]
  PROVE  a <= b /\ b + Size[k] <= a + Size[j]
<1>1. PICK s \in Nat : s = Size[k] /\ s >= 1
  BY Sizes
<1>2. PICK r \in Nat : Size[j] = r * s
  BY <1>1, SizeDivides
<1>3. PICK p \in Nat : a = p * s
  BY <1>1, MultipleOfSmaller, SMTT(30) DEF Multiple
<1>4. PICK q \in Nat : b = q * s
  BY <1>1 DEF Multiple
<1>5. (q + 1) * s = q * s + s /\ (p + r) * s = p * s + r * s
  OBVIOUS
<1>6. ~(q < p)
  <2> SUFFICES ASSUME q < p PROVE FALSE
    OBVIOUS
  <2>1. q * s + s <= p * s
    BY <1>1, Times
  <2>2. p * s < q * s + s /\ p * s \in Nat /\ q * s \in Nat
    BY <1>1, <1>3, <1>4
  <2> QED
    BY <1>1, <2>1, <2>2
<1>7. q < p + r
  <2> SUFFICES ASSUME p + r <= q PROVE FALSE
    OBVIOUS
  <2>1. (p + r) * s <= q * s
    BY <1>1, Times
  <2>2. q * s < p * s + r * s
    BY <1>2, <1>3, <1>4
  <2> QED
    BY <1>1, <1>5, <2>1, <2>2
<1>8. p * s <= q * s
  BY <1>1, <1>6, Times
<1>9. (q + 1) * s <= (p + r) * s
  BY <1>1, <1>7, Times
<1> QED
  BY <1>1, <1>2, <1>3, <1>4, <1>5, <1>8, <1>9

(* The blocks of describeCidr are those that begin at multiples of their   *)
(* sizes.                                                                  *)
LEMMA Rounded ==
  ASSUME NEW x \in Nat, NEW s \in Nat, s >= 1
  PROVE  /\ x - (x % s) \in Nat /\ Multiple(x - (x % s), s) /\ x - (x % s) <= x
         /\ Multiple(x, s) => x % s = 0
<1>1. x = s * (x \div s) + (x % s) /\ x \div s \in Nat /\ x % s \in 0..(s - 1)
  OBVIOUS
<1>2. PICK d \in Nat, m \in 0..(s - 1) : x = s * d + m /\ m = x % s
  BY <1>1
<1>3. x = d * s + m /\ d * s \in Nat
  BY <1>2
<1>4. Multiple(x - m, s)
  BY <1>3 DEF Multiple
<1>5. ASSUME Multiple(x, s) PROVE m = 0
  <2>1. PICK q \in Nat : x = q * s
    BY <1>5 DEF Multiple
  <2>2. ~(d < q)
    BY <1>3, <2>1, Times
  <2>3. ~(q < d)
    BY <1>3, <2>1, Times
  <2>4. q = d
    BY <2>2, <2>3
  <2> QED
    BY <1>3, <2>1, <2>4
<1> QED
  BY <1>2, <1>3, <1>4, <1>5

-----------------------------------------------------------------------------
(* The blocks within a range *)

InsideOf(v, lo, hi) ==
  {b \in {[network |-> NetworkOf(v, x, p), prefix |-> p] : x \in Values(v), p \in 0..Bits[v]} :
     Block(v, b) \subseteq lo..hi}

LEMMA InsideIs == Inside = InsideOf(version, first, last) /\ Inside' = InsideOf(version', first', last')
BY DEF Inside, AllBlocks, InsideOf

LEMMA BlockOf ==
  ASSUME NEW v \in Versions, NEW lo \in Nat, NEW hi \in Nat, NEW c \in InsideOf(v, lo, hi)
  PROVE  /\ Bits[v] \in Nat /\ c.prefix \in 0..Bits[v] /\ Bits[v] - c.prefix \in 0..Bits[v]
         /\ c.network \in Nat /\ c = [network |-> c.network, prefix |-> c.prefix]
         /\ Size[Bits[v] - c.prefix] \in Nat /\ Size[Bits[v] - c.prefix] >= 1
         /\ Multiple(c.network, Size[Bits[v] - c.prefix])
         /\ lo <= c.network /\ c.network + Size[Bits[v] - c.prefix] <= hi + 1
         /\ Block(v, c) = c.network .. (c.network + Size[Bits[v] - c.prefix] - 1)
<1>1. PICK x \in Values(v), p \in 0..Bits[v] : c = [network |-> NetworkOf(v, x, p), prefix |-> p]
  BY DEF InsideOf
<1>2. Bits[v] \in Nat /\ Bits[v] - p \in 0..Bits[v] /\ x \in Nat
  BY Widths DEF Values
<1>3. PICK s \in Nat : s = Size[Bits[v] - p] /\ s >= 1
  BY <1>2, Sizes
<1>4. c.prefix = p /\ c.network = x - (x % s)
  BY <1>1, <1>3 DEF NetworkOf
<1>5. c.network \in Nat /\ Multiple(c.network, s)
  <2>1. x - (x % s) \in Nat /\ Multiple(x - (x % s), s)
    BY <1>2, <1>3, Rounded
  <2> QED
    BY <1>4, <2>1
<1>6. Block(v, c) \subseteq lo..hi /\ Block(v, c) = c.network .. (c.network + s - 1)
  BY <1>3, <1>4 DEF InsideOf, Block
<1>7. lo <= c.network /\ c.network + s <= hi + 1
  <2>1. c.network \in lo..hi /\ c.network + s - 1 \in lo..hi
    BY <1>3, <1>5, <1>6
  <2> QED
    BY <1>3, <1>5, <2>1
<1>8. c = [network |-> c.network, prefix |-> c.prefix]
  BY <1>1
<1> QED
  BY <1>2, <1>3, <1>4, <1>5, <1>6, <1>7, <1>8

LEMMA IsBlock ==
  ASSUME NEW v \in Versions, NEW lo \in Nat, NEW hi \in Values(v),
         NEW k \in 0..Bits[v], NEW x \in Nat, Multiple(x, Size[k]), lo <= x, x + Size[k] <= hi + 1
  PROVE  [network |-> x, prefix |-> Bits[v] - k] \in InsideOf(v, lo, hi)
<1> DEFINE b == [network |-> x, prefix |-> Bits[v] - k]
<1>1. Bits[v] \in Nat /\ Bits[v] - k \in 0..Bits[v] /\ Bits[v] - (Bits[v] - k) = k /\ Size[Bits[v]] \in Nat
  BY Widths
<1>2. Size[k] \in Nat /\ Size[k] >= 1 /\ hi \in Nat
  BY <1>1, Sizes DEF Values
<1>3. x \in Values(v)
  BY <1>1, <1>2 DEF Values
<1>4. NetworkOf(v, x, Bits[v] - k) = x
  <2>1. PICK s \in Nat : s = Size[k] /\ s >= 1
    BY <1>2
  <2>2. x % s = 0
    BY <2>1, Rounded
  <2>3. NetworkOf(v, x, Bits[v] - k) = x - (x % s)
    BY <1>1, <2>1 DEF NetworkOf
  <2> QED
    BY <2>2, <2>3
<1>5. Block(v, b) = x .. (x + Size[k] - 1)
  BY <1>1 DEF Block
<1>6. Block(v, b) \subseteq lo..hi
  BY <1>2, <1>5
<1> QED
  BY <1>1, <1>3, <1>4, <1>6 DEF InsideOf

-----------------------------------------------------------------------------
(* The steps *)

(* Nothing is emitted before the loop begins. *)
LEMMA EmptyMinimal ==
  ASSUME version' \in Versions, first' \in Nat, last' \in Nat, start' = first', out' = <<>>
  PROVE  (NoneAcross /\ Maximal /\ Few)'
<1>1. NoneAcross'
  <2>1. \A c \in Inside' : ~(c.network < start')
    BY InsideIs, BlockOf
  <2> QED
    BY <2>1 DEF NoneAcross
<1>2. Len(out') = 0 /\ 1..Len(out') = {}
  OBVIOUS
<1>3. Maximal'
  BY <1>2 DEF Maximal
<1>4. Few'
  <2>1. Bits[version'] \in Nat /\ Size[0] = 1
    BY Widths, CidrAssumption DEF CidrAssumption
  <2>2. Multiple(start', Size[0])
    BY <2>1 DEF Multiple
  <2>3. 0 \in 0..Bits[version']
    BY <2>1
  <2>4. Growing(0)'
    BY <1>2, <2>2 DEF Growing
  <2> QED
    BY <2>3, <2>4 DEF Few
<1> QED
  BY <1>1, <1>3, <1>4

(* Steps that emit nothing. *)
LEMMA SameMinimal ==
  ASSUME Minimal, UNCHANGED <<range, start, out>>
  PROVE  (NoneAcross /\ Maximal /\ Few)'
<1>1. /\ version' = version /\ first' = first /\ last' = last /\ start' = start /\ out' = out
      /\ Inside' = Inside
  BY InsideIs DEF range
<1>2. NoneAcross' /\ Maximal'
  BY <1>1 DEF Minimal, NoneAcross, Maximal, Block
<1>3. Few'
  <2>1. PICK k \in 0..Bits[version] : Growing(k) \/ Shrinking(k)
    BY DEF Minimal, Few
  <2>2. Growing(k)' \/ Shrinking(k)'
    BY <1>1, <2>1 DEF Growing, Shrinking
  <2> QED
    BY <1>1, <2>2 DEF Few
<1> QED
  BY <1>2, <1>3

(* What trailingZeros counts are all the twos in `start'. *)
LEMMA CountedLargest ==
  ASSUME Inv, Counted
  PROVE  Largest'
<1>1. PICK k \in 0..Bits[version] : k = maxBits
  BY DEF Inv, TypeOK
<1>2. /\ version \in Versions /\ Bits[version] \in Nat /\ n \in Nat /\ start \in Nat
      /\ start = n * Size[k] /\ n % 2 # 0
  BY <1>1, Widths DEF Inv, TypeOK, Loop, Counted
<1>3. maxBits' = k /\ UNCHANGED <<version, start, last>>
  BY <1>1, <1>2 DEF Counted, range
<1>4. ASSUME NEW j \in 0..Bits[version], j > k, Multiple(start, Size[j]) PROVE FALSE
  <2>1. k + 1 \in 0..Bits[version] /\ j \in (k + 1)..Bits[version] /\ Size[k + 1] = 2 * Size[k]
    BY <1>2, <1>4, SizeGrows
  <2>2. PICK q \in Nat : start = q * Size[k + 1]
    BY <1>2, <1>4, <2>1, MultipleOfSmaller DEF Multiple
  <2>3. PICK s \in Nat : s = Size[k] /\ s >= 1
    BY <1>2, Sizes
  <2>4. q * (2 * s) = (2 * q) * s /\ 2 * q \in Nat
    OBVIOUS
  <2>5. n * s = (2 * q) * s
    BY <1>2, <2>1, <2>2, <2>3, <2>4
  <2>6. ~(n < 2 * q) /\ ~(2 * q < n)
    <3>1. n * s \in Nat /\ (n < 2 * q => n * s + s <= (2 * q) * s)
      BY <1>2, <2>3, <2>4, Times
    <3>2. 2 * q < n => (2 * q) * s + s <= n * s
      BY <1>2, <2>3, <2>4, Times
    <3> QED
      BY <2>3, <2>5, <3>1, <3>2
  <2>7. n = 2 * q
    BY <1>2, <2>4, <2>6
  <2> QED
    BY <1>2, <2>7
<1> QED
  BY <1>3, <1>4 DEF Largest

LEMMA RoundMinimal ==
  ASSUME Inv, Minimal, AtZero \/ TrailingZeros \/ Halve \/ Counted \/ Shrink
  PROVE  Minimal'
<1>1. (NoneAcross /\ Maximal /\ Few)'
  BY SameMinimal DEF AtZero, TrailingZeros, Halve, Counted, Shrink
<1>2. pc' \in {"zeros", "shrink"}
  BY DEF AtZero, TrailingZeros, Halve, Counted, Shrink
<1>3. pc' = "shrink" => Largest'
  <2>1. CASE AtZero
    <3>1. maxBits' = Bits[version'] /\ Bits[version'] \in Nat
      BY <2>1, Widths DEF AtZero, range, Inv, TypeOK
    <3>2. \A k \in 0..Bits[version'] : ~(k > maxBits')
      BY <3>1
    <3> QED
      BY <3>2 DEF Largest
  <2>2. CASE TrailingZeros \/ Halve
    BY <2>2 DEF TrailingZeros, Halve
  <2>3. CASE Counted
    BY <2>3, CountedLargest
  <2>4. CASE Shrink
    <3>1. /\ Largest /\ maxBits' = maxBits - 1 /\ ~Fits(maxBits)
          /\ version' = version /\ start' = start /\ last' = last
      BY <2>4 DEF Shrink, Minimal, range
    <3>2. maxBits \in Int /\ Size[maxBits] > last - start + 1 /\ maxBits \in 0..Bits[version]
          /\ Size[maxBits] \in Nat /\ last \in Nat /\ start \in Nat /\ Bits[version] \in Nat
      BY <3>1, Widths, Sizes DEF Fits, Inv, TypeOK, Values
    <3>3. ASSUME NEW k \in 0..Bits[version], k > maxBits - 1, Multiple(start, Size[k])
          PROVE  last - start + 1 < Size[k]
      <4>1. k = maxBits \/ k > maxBits
        BY <3>2, <3>3
      <4> QED
        BY <3>1, <3>2, <3>3, <4>1 DEF Largest
    <3> QED
      BY <3>1, <3>3 DEF Largest
  <2> QED
    BY <2>1, <2>2, <2>3, <2>4
<1> QED
  BY <1>1, <1>2, <1>3 DEF Minimal

(* The block emitted is the largest within the range that holds `start'.   *)
LEMMA EmitMinimal ==
  ASSUME Inv, Minimal, Emit
  PROVE  (NoneAcross /\ Maximal /\ Few)' /\ Len(out') <= 2 * Bits[version]
<1>1. PICK v \in Versions, w \in Nat, k \in Nat, lo \in Nat, hi \in Nat, x \in Nat :
        /\ v = version /\ w = Bits[v] /\ k = maxBits /\ k \in 0..w
        /\ lo = first /\ hi = last /\ x = start
        /\ hi \in Values(v) /\ lo <= x /\ x <= hi
  BY Widths DEF Inv, TypeOK, Loop, Values, Emit
<1>2. PICK s \in Nat : s = Size[k] /\ s >= 1
  BY <1>1, Sizes
<1>3. x + s <= hi + 1
  <2>1. CASE k = 0
    BY <1>1, <1>2, <2>1, Sizes
  <2>2. CASE k # 0
    <3>1. s <= hi - x + 1
      BY <1>1, <1>2, <2>2 DEF Emit, Fits
    <3> QED
      BY <1>1, <3>1
  <2> QED
    BY <2>1, <2>2
<1>4. Multiple(x, s)
  BY <1>1, <1>2 DEF Inv, Loop, Emit, Multiple
<1>5. \A j \in 0..w : j > k /\ Multiple(x, Size[j]) => hi - x + 1 < Size[j]
  BY <1>1 DEF Minimal, Largest, Emit
<1> DEFINE new == [network |-> x, prefix |-> w - k]
           Blocks == InsideOf(v, lo, hi)
<1>6. /\ version' = v /\ first' = lo /\ last' = hi /\ start' = x + s
      /\ out' = Append(out, new) /\ Inside = Blocks /\ Inside' = Blocks
  BY <1>1, <1>2, InsideIs DEF Emit, range
<1>7. /\ Len(out) \in Nat /\ Len(out') = Len(out) + 1
      /\ \A i \in 1..Len(out) : out'[i] = out[i]
      /\ out'[Len(out) + 1] = new
  <2>1. out \in Seq([network : Values(version), prefix : 0..Bits[version]])
    BY DEF Inv, TypeOK
  <2>2. Len(out) \in Nat /\ Append(out, new)[Len(out) + 1] = new
    BY <2>1
  <2>3. Len(Append(out, new)) = Len(out) + 1 /\ \A i \in 1..Len(out) : Append(out, new)[i] = out[i]
    BY <2>1
  <2> QED
    BY <1>6, <2>2, <2>3
<1>8. new \in Blocks
  BY <1>1, <1>2, <1>3, <1>4, IsBlock
<1>9. Block(v, new) = x .. (x + s - 1)
  <2>1. w - (w - k) = k
    BY <1>1
  <2> QED
    BY <1>1, <1>2, <2>1 DEF Block
<1> HIDE DEF new, Blocks
(* No larger block within the range begins at start, none reaches across.  *)
<1>10. ASSUME NEW c \in Blocks
       PROVE  /\ c.network = x => c.network + Size[w - c.prefix] <= x + s
              /\ c.network < x => c.network + Size[w - c.prefix] <= x
  <2>1. /\ w - c.prefix \in 0..w /\ Multiple(c.network, Size[w - c.prefix])
        /\ c.network + Size[w - c.prefix] <= hi + 1 /\ Size[w - c.prefix] \in Nat
    BY <1>1, BlockOf DEF Blocks
  <2>2. ASSUME c.network = x PROVE c.network + Size[w - c.prefix] <= x + s
    <3>1. ~(w - c.prefix > k)
      <4> SUFFICES ASSUME w - c.prefix > k PROVE FALSE
        OBVIOUS
      <4>1. hi - x + 1 < Size[w - c.prefix]
        BY <1>5, <2>1, <2>2
      <4> QED
        BY <2>1, <2>2, <4>1
    <3>2. w - c.prefix <= k
      BY <2>1, <3>1
    <3>3. Size[w - c.prefix] <= s
      BY <1>1, <1>2, <2>1, <3>2, SizeGrows
    <3> QED
      BY <2>1, <2>2, <3>3
  <2>3. c.network < x => c.network + Size[w - c.prefix] <= x
    BY <1>1, <1>6 DEF Minimal, NoneAcross
  <2> QED
    BY <2>2, <2>3
<1>11. NoneAcross'
  <2> SUFFICES ASSUME NEW c \in Blocks, c.network < x + s
               PROVE  c.network + Size[w - c.prefix] <= x + s
    BY <1>1, <1>6 DEF NoneAcross
  <2>1. /\ w - c.prefix \in 0..w /\ Multiple(c.network, Size[w - c.prefix]) /\ c.network \in Nat
        /\ Size[w - c.prefix] \in Nat /\ Size[w - c.prefix] >= 1
    BY <1>1, BlockOf DEF Blocks
  <2>2. CASE c.network <= x
    BY <1>2, <1>10, <2>1, <2>2
  <2>3. CASE c.network > x
    <3> DEFINE j == w - c.prefix
    <3>1. CASE j <= k
      <4>1. k \in j..Bits[v] /\ j \in 0..Bits[v]
        BY <1>1, <2>1, <3>1
      <4>2. x < c.network + Size[j]
        BY <2>1, <2>3
      <4> HIDE DEF j
      <4> QED
        BY <1>2, <1>4, <2>1, <4>1, <4>2, Nested DEF j
    <3>2. CASE j > k
      <4>1. j \in k..Bits[v] /\ k \in 0..Bits[v]
        BY <1>1, <2>1, <3>2
      <4>2. x < c.network + Size[j]
        BY <2>1, <2>3
      <4>3. c.network <= x
        BY <1>2, <1>4, <2>1, <4>1, <4>2, Nested
      <4> QED
        BY <2>1, <2>3, <4>3
    <3> QED
      BY <1>1, <2>1, <3>1, <3>2
  <2> QED
    BY <2>1, <2>2, <2>3
<1>12. Maximal'
  <2>1. ASSUME NEW c \in Blocks, Block(v, new) \subseteq Block(v, c) PROVE new = c
    <3>1. /\ w - c.prefix \in 0..w /\ c.network \in Nat /\ c = [network |-> c.network, prefix |-> c.prefix]
          /\ Size[w - c.prefix] \in Nat /\ Size[w - c.prefix] >= 1 /\ c.prefix \in 0..w
          /\ Block(v, c) = c.network .. (c.network + Size[w - c.prefix] - 1)
      BY <1>1, BlockOf DEF Blocks
    <3>2. x \in Block(v, c) /\ x + s - 1 \in Block(v, c)
      <4>1. x \in x .. (x + s - 1) /\ x + s - 1 \in x .. (x + s - 1)
        BY <1>2
      <4> QED
        BY <1>9, <2>1, <4>1
    <3>3. c.network <= x /\ x + s <= c.network + Size[w - c.prefix]
      <4>1. x \in Nat /\ s \in Nat
        BY <1>2
      <4>2. /\ x \in c.network .. (c.network + Size[w - c.prefix] - 1)
            /\ x + s - 1 \in c.network .. (c.network + Size[w - c.prefix] - 1)
        BY <3>1, <3>2
      <4>3. \A m, z, t, y \in Nat : y \in m .. (m + z - 1) /\ y + t - 1 \in m .. (m + z - 1)
                                    => m <= y /\ y + t <= m + z
        OBVIOUS
      <4> QED
        BY <3>1, <4>1, <4>2, <4>3
    <3>4. c.network = x /\ Size[w - c.prefix] = s
      <4>1. c.network = x
        <5>1. c.network < x => c.network + Size[w - c.prefix] <= x
          BY <1>10
        <5> QED
          BY <1>2, <3>1, <3>3, <5>1, SMTT(30)
      <4>2. c.network + Size[w - c.prefix] <= x + s
        BY <1>10, <4>1
      <4> QED
        BY <1>2, <3>1, <3>3, <4>1, <4>2
    <3>5. ~(w - c.prefix < k)
      <4> SUFFICES ASSUME w - c.prefix < k PROVE FALSE
        OBVIOUS
      <4>1. 2 * Size[w - c.prefix] <= Size[k]
        BY <1>1, <3>1, SizeGrows
      <4> QED
        BY <1>2, <3>4, <4>1
    <3>6. ~(k < w - c.prefix)
      <4> SUFFICES ASSUME k < w - c.prefix PROVE FALSE
        OBVIOUS
      <4>1. 2 * Size[k] <= Size[w - c.prefix]
        BY <1>1, <3>1, SizeGrows
      <4> QED
        BY <1>2, <3>4, <4>1
    <3>7. c.prefix = w - k
      BY <3>1, <3>5, <3>6
    <3> QED
      BY <3>1, <3>4, <3>7 DEF new
  <2>2. \A i \in 1..Len(out) :
          /\ out[i] \in Blocks
          /\ \A c \in Blocks : Block(v, out[i]) \subseteq Block(v, c) => out[i] = c
    BY <1>1, <1>6 DEF Minimal, Maximal
  <2>3. \A i \in 1..Len(out') : i \in 1..Len(out) \/ i = Len(out) + 1
    BY <1>7
  <2> QED
    BY <1>6, <1>7, <1>8, <2>1, <2>2, <2>3 DEF Maximal
(* A block that ends before a larger one would end the range shrinks the   *)
(* next ones; after one that does not, `start' has more twos.              *)
<1>13. PICK z \in 0..w : \/ Multiple(x, Size[z]) /\ Len(out) <= z
                        \/ /\ Multiple(x, Size[z]) /\ hi - x + 1 < Size[z]
                           /\ Len(out) + z <= 2 * w
  BY <1>1 DEF Minimal, Few, Growing, Shrinking
<1>14. Multiple(x + s, s)
  <2>1. PICK q \in Nat : x = q * s
    BY <1>4 DEF Multiple
  <2>2. (q + 1) * s = q * s + s
    OBVIOUS
  <2> QED
    BY <2>1, <2>2 DEF Multiple
<1>15. /\ \A j \in 0..w : Growing(j)' <=> Multiple(x + s, Size[j]) /\ Len(out) + 1 <= j
       /\ \A j \in 0..w : Shrinking(j)' <=> /\ Multiple(x + s, Size[j]) /\ hi - (x + s) + 1 < Size[j]
                                            /\ Len(out) + 1 + j <= 2 * w
  BY <1>1, <1>6, <1>7 DEF Growing, Shrinking
<1>16. \E j \in 0..w : Growing(j)' \/ Shrinking(j)'
  <2>1. CASE k = w
    <3>1. w >= 1 /\ Size[0] = 1 /\ 0 \in 0..w
      BY <1>1, CidrAssumption DEF CidrAssumption, Versions
    <3>2. hi - (x + s) + 1 < Size[0]
      <4>1. hi < Size[w] /\ s = Size[w] /\ Size[w] \in Nat
        BY <1>1, <1>2, <2>1, Widths DEF Values
      <4> QED
        BY <1>3, <3>1, <4>1
    <3>3. Multiple(x + s, Size[0])
      BY <3>1 DEF Multiple
    <3>4. Len(out) + 1 + 0 <= 2 * w
      <4>1. CASE Multiple(x, Size[z]) /\ Len(out) <= z
        BY <1>7, <3>1, <4>1
      <4>2. CASE hi - x + 1 < Size[z] /\ Len(out) + z <= 2 * w
        <5>1. Size[z] <= s
          BY <1>1, <1>2, <2>1, SizeGrows
        <5>2. Size[z] \in Nat
          BY <1>1, Sizes
        <5> QED
          BY <1>1, <1>2, <1>3, <4>2, <5>1, <5>2
      <4> QED
        BY <1>13, <4>1, <4>2
    <3> QED
      BY <1>15, <3>1, <3>2, <3>3, <3>4
  <2>2. CASE k < w
    <3>1. k + 1 \in 0..w /\ Size[k + 1] = 2 * s /\ k \in Nat
      BY <1>1, <1>2, <2>2, SizeGrows
    <3>2. CASE Multiple(x, Size[k + 1])
      <4>1. hi - x + 1 < 2 * s
        BY <1>5, <3>1, <3>2
      <4>2. hi - (x + s) + 1 < s
        BY <1>3, <4>1
      <4>3. Len(out) + 1 + k <= 2 * w
        <5>1. CASE Len(out) <= z
          BY <1>1, <1>7, <2>2, <3>1, <5>1
        <5>2. CASE hi - x + 1 < Size[z] /\ Len(out) + z <= 2 * w
          <6>1. ~(z <= k)
            <7> SUFFICES ASSUME z <= k PROVE FALSE
              OBVIOUS
            <7>1. Size[z] <= s /\ Size[z] \in Nat
              BY <1>1, <1>2, SizeGrows, Sizes
            <7> QED
              BY <1>1, <1>2, <1>3, <5>2, <7>1
          <6> QED
            BY <1>1, <1>7, <3>1, <5>2, <6>1
        <5> QED
          BY <1>13, <5>1, <5>2
      <4> QED
        BY <1>1, <1>2, <1>14, <1>15, <4>2, <4>3
    <3>3. CASE ~Multiple(x, Size[k + 1])
      <4>1. z <= k
        <5> SUFFICES ASSUME k < z PROVE FALSE
          BY <3>1
        <5>1. z \in (k + 1)..Bits[v] /\ k + 1 \in 0..Bits[v]
          BY <1>1, <3>1
        <5>2. Multiple(x, Size[z])
          BY <1>13
        <5> QED
          BY <3>3, <5>1, <5>2, MultipleOfSmaller
      <4>2. Len(out) <= z
        <5>1. Size[z] <= s /\ Size[z] \in Nat
          BY <1>1, <1>2, <4>1, SizeGrows, Sizes
        <5>2. ~(hi - x + 1 < Size[z])
          BY <1>1, <1>2, <1>3, <5>1
        <5> QED
          BY <1>13, <5>2
      <4>3. Multiple(x + s, 2 * s)
        <5>1. PICK q \in Nat : x = q * s
          BY <1>4 DEF Multiple
        <5>2. \A h \in Nat : h * (2 * s) = (2 * h) * s
          OBVIOUS
        <5>3. q % 2 # 0
          <6> SUFFICES ASSUME q % 2 = 0 PROVE FALSE
            OBVIOUS
          <6>1. PICK h \in Nat : q = 2 * h
            BY q \div 2 \in Nat /\ q = 2 * (q \div 2)
          <6> QED
            BY <3>1, <3>3, <5>1, <5>2, <6>1 DEF Multiple
        <5>4. PICK h \in Nat : q + 1 = 2 * h
          <6>1. (q + 1) \div 2 \in Nat /\ q + 1 = 2 * ((q + 1) \div 2)
            BY <5>3
          <6> QED
            BY <6>1
        <5>5. (q + 1) * s = q * s + s
          OBVIOUS
        <5> QED
          BY <5>1, <5>2, <5>4, <5>5 DEF Multiple
      <4>4. Len(out) + 1 <= k + 1
        BY <1>1, <1>7, <3>1, <4>1, <4>2
      <4> QED
        BY <1>15, <3>1, <4>3, <4>4
    <3> QED
      BY <3>2, <3>3
  <2> QED
    BY <1>1, <2>1, <2>2
<1>17. Few'
  BY <1>1, <1>6, <1>16 DEF Few
<1>18. Len(out') <= 2 * Bits[version]
  <2>1. PICK j \in 0..w : Growing(j)' \/ Shrinking(j)'
    BY <1>16
  <2>2. Len(out) + 1 <= j \/ Len(out) + 1 + j <= 2 * w
    BY <1>15, <2>1
  <2> QED
    BY <1>1, <1>7, <2>2
<1> QED
  BY <1>11, <1>12, <1>17, <1>18

(* describeCidr never returns null. *)
LEMMA DescriptionIsNotNull ==
  ASSUME NEW a \in Addresses \cup {Null}, NEW p \in 0..(Bits[6] + 1), DescribeCidr(a, p)
  PROVE  info' # Null
<1>1. a \in Addresses /\ p \in 0..Bits[a.version] /\ a.version \in Versions /\ a.value \in Nat
  BY Widths DEF DescribeCidr, IsCidr, Addresses, Values
<1> DEFINE v == a.version
           size == Size[Bits[v] - p]
<1>2. Bits[v] - p \in 0..Bits[v] /\ Bits[v] \in Nat
  BY <1>1, Widths
<1>3. size \in Nat /\ size >= 1 /\ Size[Bits[v]] \in Nat
  BY <1>1, <1>2, Sizes, Widths
<1>4. NetworkOf(v, a.value, p) \in Int
  <2>1. a.value % size \in Int
    <3> HIDE DEF size
    <3> QED
      BY <1>1, <1>3, Remainder
  <2> QED
    BY <1>1, <2>1 DEF NetworkOf
<1>5. LastOf(v, a.value, p) \in Int
  BY <1>3, <1>4 DEF LastOf, MaskFor
<1>6. Hosts(v, a.value, p) \in [firstHost : Int, lastHost : Int, usableHosts : Int]
  BY <1>3, <1>4, <1>5 DEF Hosts
<1>7. info' \in Descriptions
  BY <1>1, <1>4, <1>5, <1>6 DEF DescribeCidr, Descriptions
<1> QED
  BY <1>7, NullAssumption DEF NullAssumption

LEMMA MinimalStep ==
  ASSUME MaxBlocks >= 2 * Bits[6], Inv, Minimal, [Next]_vars
  PROVE  Minimal'
<1>1. ASSUME NEW a \in Addresses \cup {Null}, NEW b \in Addresses \cup {Null},
             RangeToCidrs(a, b)
      PROVE  Minimal'
  <2>1. /\ out' = <<>> /\ start' = first' /\ pc' = "loop"
        /\ version' = a.version /\ first' = a.value /\ last' = b.value
        /\ a # Null /\ b # Null
    BY <1>1 DEF RangeToCidrs, Accepts, Inv, Loop
  <2>2. version' \in Versions /\ first' \in Nat /\ last' \in Nat
    BY <2>1, Widths DEF Addresses, Values
  <2> QED
    BY <2>1, <2>2, EmptyMinimal DEF Minimal
<1>2. ASSUME pc' = "rejected", pc = "idle", UNCHANGED <<range, start, out>>
      PROVE  Minimal'
  <2>1. out' = <<>>
    BY <1>2 DEF Inv, Loop
  <2> QED
    BY <1>2, <2>1, SameMinimal DEF Minimal
<1>3. CASE AtZero \/ TrailingZeros \/ Halve \/ Counted \/ Shrink
  BY <1>3, RoundMinimal
<1>4. CASE Emit
  <2>1. (NoneAcross /\ Maximal /\ Few)' /\ Len(out') <= 2 * Bits[version]
    BY <1>4, EmitMinimal
  <2>2. Bits[version] <= Bits[6] /\ Bits[version] \in Nat /\ Bits[6] \in Nat
    BY CidrAssumption, Widths DEF CidrAssumption, Versions, Inv, TypeOK
  <2>3. Len(out') \in Nat
    <3>1. out \in Seq([network : Values(version), prefix : 0..Bits[version]])
      BY DEF Inv, TypeOK
    <3>2. Len(out') = Len(out) + 1
      BY <1>4, <3>1 DEF Emit
    <3> QED
      BY <3>1, <3>2
  <2>4. ~(Len(out') > MaxBlocks)
    BY <2>1, <2>2, <2>3, CidrAssumption DEF CidrAssumption
  <2>5. pc' = "loop"
    BY <1>4, <2>4 DEF Emit
  <2> QED
    BY <2>1, <2>5 DEF Minimal
<1>5. CASE Return
  <2>1. start = last + 1
    BY <1>5 DEF Return, Inv, Loop, TypeOK, Values
  <2>2. pc' = "fulfilled" /\ start' = start /\ last' = last /\ UNCHANGED <<range, start, out>>
    BY <1>5 DEF Return, range
  <2> QED
    BY <2>1, <2>2, SameMinimal DEF Minimal
<1>6. ASSUME NEW a \in Addresses \cup {Null}, NEW p \in 0..(Bits[6] + 1), DescribeCidr(a, p)
      PROVE  Minimal'
  <2>1. pc' = "fulfilled" /\ UNCHANGED <<range, start, out>>
    BY <1>6 DEF DescribeCidr
  <2>2. info' # Null
    BY <1>6, DescriptionIsNotNull
  <2> QED
    BY <2>1, <2>2, SameMinimal DEF Minimal
<1>7. CASE UNCHANGED vars
  BY <1>7, SameMinimal DEF vars, range, Minimal, Largest
<1> QED
  BY <1>1, <1>2, <1>3, <1>4, <1>5, <1>6, <1>7 DEF Next, Refuse, RefuseCidr

LEMMA InitMinimal == Init => Minimal
<1> SUFFICES ASSUME Init PROVE Minimal
  OBVIOUS
<1>1. version \in Versions /\ first = 0 /\ last = 0 /\ start = 0 /\ out = <<>> /\ pc = "idle"
  BY DEF Init, Versions
<1>2. NoneAcross
  <2>1. ASSUME NEW c \in Inside PROVE ~(c.network < start)
    <3>1. c \in InsideOf(version, first, last)
      BY InsideIs
    <3>2. first \in Nat /\ last \in Nat
      BY <1>1
    <3>3. c.network \in Nat
      BY <1>1, <3>1, <3>2, BlockOf
    <3> QED
      BY <1>1, <3>3
  <2> QED
    BY <2>1 DEF NoneAcross
<1>3. Len(out) = 0 /\ 1..Len(out) = {}
  BY <1>1
<1>4. Maximal
  BY <1>3 DEF Maximal
<1>5. Few
  <2>1. Bits[version] \in Nat /\ Size[0] = 1
    BY <1>1, Widths, CidrAssumption DEF CidrAssumption
  <2>2. Multiple(start, Size[0]) /\ 0 \in 0..Bits[version]
    BY <1>1, <2>1 DEF Multiple
  <2> QED
    BY <1>3, <2>2 DEF Few, Growing
<1> QED
  BY <1>1, <1>2, <1>4, <1>5 DEF Minimal

(* At the end, the blocks emitted are all the largest ones of the range.   *)
LEMMA MinimalCover ==
  ASSUME Inv, Minimal
  PROVE  CoverIsMinimal
<1> SUFFICES ASSUME pc = "fulfilled", info = Null
             PROVE  {out[i] : i \in 1..Len(out)} =
                      {b \in Inside : \A c \in Inside : Block(version, b) \subseteq Block(version, c) => b = c}
  BY DEF CoverIsMinimal, Minimal
<1>1. PICK v \in Versions, w \in Nat, lo \in Nat, hi \in Nat :
        /\ v = version /\ w = Bits[v] /\ lo = first /\ hi = last
        /\ Inside = InsideOf(v, lo, hi)
  BY Widths, InsideIs DEF Inv, TypeOK, Values
<1>2. start - 1 = hi
  BY <1>1 DEF Minimal
<1>3. ASSUME NEW b \in Inside, \A c \in Inside : Block(v, b) \subseteq Block(v, c) => b = c
      PROVE  \E i \in 1..Len(out) : b = out[i]
  <2>1. /\ b.network \in Nat /\ w - b.prefix \in 0..w /\ lo <= b.network
        /\ Size[w - b.prefix] \in Nat /\ Size[w - b.prefix] >= 1
        /\ b.network + Size[w - b.prefix] <= hi + 1
        /\ Multiple(b.network, Size[w - b.prefix])
        /\ Block(v, b) = b.network .. (b.network + Size[w - b.prefix] - 1)
    BY <1>1, BlockOf
  <2>2. b.network \in lo..hi
    BY <2>1
  <2>3. PICK i \in 1..Len(out) : b.network \in Block(v, out[i])
    BY <1>1, <1>2, <2>2 DEF Inv, CoversExactly
  <2>4. out[i] \in Inside /\ \A c \in Inside : Block(v, out[i]) \subseteq Block(v, c) => out[i] = c
    BY <1>1 DEF Minimal, Maximal
  <2>5. PICK c \in Inside : c = out[i]
    BY <2>4
  <2>6. /\ c.network \in Nat /\ w - c.prefix \in 0..w
        /\ Size[w - c.prefix] \in Nat /\ Size[w - c.prefix] >= 1
        /\ Multiple(c.network, Size[w - c.prefix])
        /\ Block(v, c) = c.network .. (c.network + Size[w - c.prefix] - 1)
    BY <1>1, BlockOf
  <2>7. c.network <= b.network /\ b.network < c.network + Size[w - c.prefix]
    BY <2>1, <2>3, <2>5, <2>6, SMTT(30)
  <2>8. CASE w - b.prefix <= w - c.prefix
    <3>1. w - c.prefix \in (w - b.prefix)..Bits[v] /\ w - b.prefix \in 0..Bits[v]
      BY <1>1, <2>1, <2>6, <2>8
    <3>2. c.network < b.network + Size[w - b.prefix]
      BY <2>1, <2>6, <2>7, SMTT(30)
    <3>3. b.network + Size[w - b.prefix] <= c.network + Size[w - c.prefix]
      BY <2>1, <2>6, <2>7, <3>1, <3>2, Nested
    <3>4. Block(v, b) \subseteq Block(v, c)
      <4>1. b.network .. (b.network + Size[w - b.prefix] - 1) \subseteq c.network .. (c.network + Size[w - c.prefix] - 1)
        <5>1. PICK l \in Nat, m \in Nat, i1 \in Nat, j1 \in Nat :
                /\ l = c.network /\ m = Size[w - c.prefix]
                /\ i1 = b.network /\ j1 = Size[w - b.prefix]
          BY <2>1, <2>6
        <5>2. l <= i1 /\ i1 + j1 <= l + m
          BY <2>7, <3>3, <5>1
        <5>3. i1 .. (i1 + j1 - 1) \subseteq l .. (l + m - 1)
          BY <5>2, Interval
        <5> QED
          BY <5>1, <5>3, Zenon
      <4> QED
        BY <2>1, <2>6, <4>1, Zenon
    <3> QED
      BY <1>3, <2>5, <3>4
  <2>9. CASE w - c.prefix <= w - b.prefix
    <3>1. w - b.prefix \in (w - c.prefix)..Bits[v] /\ w - c.prefix \in 0..Bits[v]
      BY <1>1, <2>1, <2>6, <2>9
    <3>2. c.network < b.network + Size[w - b.prefix]
      BY <2>1, <2>6, <2>7, SMTT(30)
    <3>3. b.network <= c.network /\ c.network + Size[w - c.prefix] <= b.network + Size[w - b.prefix]
      BY <2>1, <2>6, <2>7, <3>1, <3>2, Nested
    <3>4. Block(v, c) \subseteq Block(v, b)
      <4>1. c.network .. (c.network + Size[w - c.prefix] - 1) \subseteq b.network .. (b.network + Size[w - b.prefix] - 1)
        <5>1. PICK l \in Nat, m \in Nat, i1 \in Nat, j1 \in Nat :
                /\ l = b.network /\ m = Size[w - b.prefix]
                /\ i1 = c.network /\ j1 = Size[w - c.prefix]
          BY <2>1, <2>6
        <5>2. l <= i1 /\ i1 + j1 <= l + m
          BY <2>7, <3>3, <5>1
        <5>3. i1 .. (i1 + j1 - 1) \subseteq l .. (l + m - 1)
          BY <5>2, Interval
        <5> QED
          BY <5>1, <5>3, Zenon
      <4> QED
        BY <2>1, <2>6, <4>1, Zenon
    <3> QED
      BY <2>4, <2>5, <3>4
  <2> QED
    BY <2>1, <2>6, <2>8, <2>9
<1>4. \A i \in 1..Len(out) :
        /\ out[i] \in Inside
        /\ \A c \in Inside : Block(v, out[i]) \subseteq Block(v, c) => out[i] = c
  BY <1>1 DEF Minimal, Maximal
<1> QED
  BY <1>1, <1>3, <1>4

(* For addresses of any width, and a cap of at least twice that width: the *)
(* blocks that rangeToCidrs returns are the largest ones of the range, all *)
(* of them and no other, and no range is refused for needing too many.     *)
THEOREM MinimalRange == MaxBlocks >= 2 * Bits[6] /\ Spec => []CoverIsMinimal
<1> SUFFICES ASSUME MaxBlocks >= 2 * Bits[6] PROVE Spec => []CoverIsMinimal
  OBVIOUS
<1>1. Init => Inv /\ Minimal
  BY InitInv, InitMinimal
<1>2. Inv /\ Minimal /\ [Next]_vars => (Inv /\ Minimal)'
  BY NextInv, MinimalStep
<1>3. Inv /\ Minimal => CoverIsMinimal
  BY MinimalCover
<1> QED
  BY <1>1, <1>2, <1>3, PTL DEF Spec

-----------------------------------------------------------------------------
(* A behaviour of the tools *)

(* The tools share nothing: a behaviour of one of them is a behaviour of   *)
(* each, which stutters while another computes.                            *)
LEMMA CidrAmongTheTools == PureSpec => Spec
<1>1. PureInit => Init
  BY DEF PureInit
<1>2. [PureNext]_pureVars => [Next]_vars
  BY DEF PureNext, pureVars, vars
<1> QED
  BY <1>1, <1>2, PTL DEF PureSpec, Spec

(* The cover of a range and the description of a block, among the tools:   *)
(* what is shown above holds of the specification that is checked          *)
(* (cidr.ts:65).                                                           *)
THEOREM CidrHolds == PureSpec => [](TypeOK /\ CoversExactly /\ HostsMatchTheirNumber)
BY CidrAmongTheTools, CidrTyping, ExactCover, HostsAgree, PTL


-----------------------------------------------------------------------------
(* The scope of an address *)

(* The units of an address tell its version, and with it the table.        *)
LEMMA UnitsOf ==
  ASSUME NEW units \in {4, 8}, NEW top \in Nat, NEW u \in [1..units -> 0..top]
  PROVE  /\ Len(u) = units
         /\ units = 4 => UnitBits(u) = 8 /\ Table(u) = SpecialV4
         /\ units = 8 => UnitBits(u) = 16 /\ Table(u) = SpecialV6
<1>1. u \in Seq(0..top) /\ Len(u) = units
  OBVIOUS
<1> QED
  BY <1>1 DEF UnitBits, Table

(* A block of addresses from a to b: they agree before the k-th unit and   *)
(* are free behind it.                                                     *)
IsSpan(a, b, k, units, top) ==
  /\ a \in [1..units -> 0..top] /\ b \in [1..units -> 0..top] /\ k \in 1..units
  /\ \A i \in 1..units : i < k => b[i] = a[i]
  /\ a[k] <= b[k]
  /\ \A i \in 1..units : i > k => a[i] = 0 /\ b[i] = top

(* Between the first and the last address of a block, in the order of      *)
(* values, are those whose units each lie between theirs.                  *)
LEMMA BlockIsABox ==
  ASSUME NEW units \in {4, 8}, NEW top \in Nat, NEW u \in [1..units -> 0..top],
         NEW a, NEW b, NEW k, IsSpan(a, b, k, units, top)
  PROVE  AtMost(a, u) /\ AtMost(u, b) <=> \A i \in 1..units : a[i] <= u[i] /\ u[i] <= b[i]
<1>0. /\ a \in [1..units -> 0..top] /\ b \in [1..units -> 0..top] /\ k \in 1..units
      /\ \A i \in 1..units : i < k => b[i] = a[i]
      /\ \A i \in 1..units : i > k => a[i] = 0 /\ b[i] = top
  BY DEF IsSpan
<1>n. units \in Nat /\ \A i \in 1..units : a[i] \in 0..top /\ b[i] \in 0..top /\ u[i] \in 0..top
  BY <1>0
<1>1. Len(a) = units /\ Len(u) = units
  BY <1>0, UnitsOf
<1>2. ASSUME AtMost(a, u), AtMost(u, b) PROVE \A i \in 1..units : a[i] <= u[i] /\ u[i] <= b[i]
  <2>1. a = u \/ \E i \in 1..units : a[i] < u[i] /\ \A j \in 1..(i - 1) : a[j] = u[j]
    BY <1>1, <1>2 DEF AtMost
  <2>2. u = b \/ \E i \in 1..units : u[i] < b[i] /\ \A j \in 1..(i - 1) : u[j] = b[j]
    BY <1>1, <1>2 DEF AtMost
  <2> DEFINE D == {i \in 1..units : i < k /\ a[i] # u[i]}
  <2>3. D = {}
    <3> SUFFICES ASSUME D # {} PROVE FALSE
      OBVIOUS
    <3>1. PICK m \in D : \A i \in D : m <= i
      <4> D \in SUBSET Nat
        OBVIOUS
      <4> HIDE DEF D
      <4> QED
        BY LeastNatural
    <3>2. m \in 1..units /\ m < k /\ a[m] # u[m] /\ b[m] = a[m]
      BY <1>0, <3>1
    <3>3. \A j \in 1..units : j < m => a[j] = u[j] /\ u[j] = b[j]
      <4> SUFFICES ASSUME NEW j \in 1..units, j < m PROVE a[j] = u[j] /\ u[j] = b[j]
        OBVIOUS
      <4>1. j < k /\ ~ (m <= j)
        BY <1>0, <1>n, <3>2
      <4>2. a[j] = u[j]
        BY <3>1, <4>1
      <4> QED
        BY <1>0, <4>1, <4>2
    <3> HIDE DEF D
    <3>4. a[m] < u[m]
      <4>1. PICK i \in 1..units : a[i] < u[i] /\ \A j \in 1..(i - 1) : a[j] = u[j]
        BY <2>1, <3>2
      <4>2. ~ (m < i)
        BY <1>n, <3>2, <4>1
      <4>3. ~ (i < m)
        BY <1>n, <3>3, <4>1
      <4>4. i = m
        BY <1>n, <3>2, <4>2, <4>3
      <4> QED
        BY <4>1, <4>4
    <3>5. u[m] < b[m]
      <4>1. PICK i \in 1..units : u[i] < b[i] /\ \A j \in 1..(i - 1) : u[j] = b[j]
        BY <2>2, <3>2
      <4>2. ~ (m < i)
        BY <1>n, <3>2, <4>1
      <4>3. ~ (i < m)
        BY <1>n, <3>3, <4>1
      <4>4. i = m
        BY <1>n, <3>2, <4>2, <4>3
      <4> QED
        BY <4>1, <4>4
    <3> QED
      BY <1>n, <3>2, <3>4, <3>5
  <2>4. \A i \in 1..units : i < k => a[i] = u[i] /\ u[i] = b[i]
    BY <1>0, <2>3
  <2> HIDE DEF D
  <2>5. a[k] <= u[k]
    <3>1. CASE a = u
      BY <1>0, <1>n, <3>1
    <3>2. CASE \E i \in 1..units : a[i] < u[i] /\ \A j \in 1..(i - 1) : a[j] = u[j]
      <4>1. PICK i \in 1..units : a[i] < u[i] /\ \A j \in 1..(i - 1) : a[j] = u[j]
        BY <3>2
      <4>2. ~ (i < k)
        BY <1>n, <2>4, <4>1
      <4>3. a[k] \in Nat /\ u[k] \in Nat
        BY <1>0, <1>n
      <4>4. CASE i = k
        <5>1. a[k] < u[k]
          BY <4>1, <4>4
        <5> QED
          BY <4>3, <5>1
      <4>5. CASE k < i
        <5>1. a[k] = u[k]
          BY <1>0, <1>n, <4>1, <4>5
        <5> QED
          BY <4>3, <5>1
      <4> QED
        BY <1>0, <1>n, <4>2, <4>4, <4>5
    <3> QED
      BY <2>1, <3>1, <3>2
  <2>6. u[k] <= b[k]
    <3>1. CASE u = b
      BY <1>0, <1>n, <3>1
    <3>2. CASE \E i \in 1..units : u[i] < b[i] /\ \A j \in 1..(i - 1) : u[j] = b[j]
      <4>1. PICK i \in 1..units : u[i] < b[i] /\ \A j \in 1..(i - 1) : u[j] = b[j]
        BY <3>2
      <4>2. ~ (i < k)
        BY <1>n, <2>4, <4>1
      <4>3. u[k] \in Nat /\ b[k] \in Nat
        BY <1>0, <1>n
      <4>4. CASE i = k
        <5>1. u[k] < b[k]
          BY <4>1, <4>4
        <5> QED
          BY <4>3, <5>1
      <4>5. CASE k < i
        <5>1. u[k] = b[k]
          BY <1>0, <1>n, <4>1, <4>5
        <5> QED
          BY <4>3, <5>1
      <4> QED
        BY <1>0, <1>n, <4>2, <4>4, <4>5
    <3> QED
      BY <2>2, <3>1, <3>2
  <2> SUFFICES ASSUME NEW i \in 1..units PROVE a[i] <= u[i] /\ u[i] <= b[i]
    OBVIOUS
  <2>7. CASE i < k
    BY <1>n, <2>4, <2>7
  <2>8. CASE i = k
    BY <2>5, <2>6, <2>8
  <2>9. CASE i > k
    BY <1>0, <1>n, <2>9
  <2> QED
    BY <1>0, <1>n, <2>7, <2>8, <2>9
<1>3. ASSUME NEW x \in [1..units -> 0..top], NEW y \in [1..units -> 0..top], \A i \in 1..units : x[i] <= y[i]
      PROVE  AtMost(x, y)
  <2>1. CASE x = y
    BY <2>1 DEF AtMost
  <2>2. CASE x # y
    <3> DEFINE D == {i \in 1..units : x[i] # y[i]}
    <3>1. D # {}
      <4> SUFFICES ASSUME \A i \in 1..units : x[i] = y[i] PROVE x = y
        BY <2>2
      <4>1. x = [i \in 1..units |-> x[i]] /\ y = [i \in 1..units |-> y[i]]
        BY <1>3
      <4>2. [i \in 1..units |-> x[i]] = [i \in 1..units |-> y[i]]
        OBVIOUS
      <4> QED
        BY <4>1, <4>2
    <3>2. PICK m \in D : \A i \in D : m <= i
      <4> D \in SUBSET Nat
        OBVIOUS
      <4> HIDE DEF D
      <4> QED
        BY <3>1, LeastNatural
    <3>3. Len(x) = units
      BY UnitsOf
    <3>4. m \in 1..units /\ x[m] < y[m]
      <4>1. m \in 1..units /\ x[m] # y[m] /\ x[m] <= y[m]
        BY <1>3, <3>2
      <4>2. x[m] \in 0..top /\ y[m] \in 0..top
        BY <4>1
      <4> QED
        BY <4>1, <4>2
    <3>5. \A j \in 1..(m - 1) : x[j] = y[j]
      <4> SUFFICES ASSUME NEW j \in 1..(m - 1) PROVE x[j] = y[j]
        OBVIOUS
      <4>1. j \in 1..units /\ ~ (m <= j)
        BY <1>n, <3>4
      <4> QED
        BY <3>2, <4>1
    <3> QED
      BY <3>3, <3>4, <3>5 DEF AtMost
  <2> QED
    BY <2>1, <2>2
<1>4. ASSUME \A i \in 1..units : a[i] <= u[i] /\ u[i] <= b[i] PROVE AtMost(a, u) /\ AtMost(u, b)
  <2>1. (\A i \in 1..units : a[i] <= u[i]) /\ \A i \in 1..units : u[i] <= b[i]
    BY <1>4
  <2>2. AtMost(a, u)
    BY <1>0, <1>3, <2>1
  <2>3. AtMost(u, b)
    BY <1>0, <1>3, <2>1
  <2> QED
    BY <2>2, <2>3
<1> QED
  BY <1>2, <1>4


(* The powers of two that a prefix leaves free in a unit of the tables.    *)
FreeOfTables == {0, 1, 4, 6, 8, 9, 16}

(* Powers of two, for as many free bits as a unit of a row has.            *)
LEMMA Powers ==
  ASSUME NEW f
  PROVE  /\ f = 0 => 2 ^ f = 1
         /\ f = 1 => 2 ^ f = 2
         /\ f = 4 => 2 ^ f = 16
         /\ f = 6 => 2 ^ f = 64
         /\ f = 8 => 2 ^ f = 256
         /\ f = 9 => 2 ^ f = 512
         /\ f = 16 => 2 ^ f = 65536
<1>1. f = 0 => 2 ^ f = 1
  OBVIOUS
<1>2. f = 1 => 2 ^ f = 2
  OBVIOUS
<1>3. f = 4 => 2 ^ f = 16
  OBVIOUS
<1>4. f = 6 => 2 ^ f = 64
  OBVIOUS
<1>5. f = 8 => 2 ^ f = 256
  OBVIOUS
<1>6. f = 9 => 2 ^ f = 512
  OBVIOUS
<1>7. f = 16 => 2 ^ f = 65536
  OBVIOUS
<1> QED
  BY <1>1, <1>2, <1>3, <1>4, <1>5, <1>6, <1>7

(* Division of a natural number.                                           *)
LEMMA Quotient ==
  ASSUME NEW d \in Nat \ {0}, NEW a \in Nat
  PROVE  a \div d \in Nat /\ d * (a \div d) <= a /\ a < d * (a \div d) + d
OBVIOUS

(* From a multiple of a number to the one before the next are the numbers  *)
(* with the same quotient.                                                 *)
LEMMA SameQuotient ==
  ASSUME NEW d \in Nat \ {0}, NEW a \in Nat, NEW x \in Nat, a % d = 0
  PROVE  a <= x /\ x <= a + d - 1 <=> x \div d = a \div d
<1> DEFINE p == a \div d
           q == x \div d
           r == x % d
<1>1. p \in Nat /\ q \in Nat /\ r \in 0..(d - 1) /\ a = d * p /\ x = d * q + r
  OBVIOUS
<1> HIDE DEF p, q, r
<1>2. ASSUME NEW m \in Nat, NEW units \in Nat, m < units PROVE d * m + d <= d * units
  <2>1. PICK k \in Nat : units = m + 1 + k
    BY <1>2, units - m - 1 \in Nat
  <2>2. d * (m + 1 + k) = d * m + d + d * k
    OBVIOUS
  <2>3. d * k \in Nat
    OBVIOUS
  <2> QED
    BY <2>1, <2>2, <2>3
<1>3. d * p \in Nat /\ d * q \in Nat
  BY <1>1
<1>4. CASE p = q
  BY <1>1, <1>3, <1>4 DEF p, q
<1>5. CASE p < q
  BY <1>1, <1>2, <1>3, <1>5 DEF p, q
<1>6. CASE q < p
  BY <1>1, <1>2, <1>3, <1>6 DEF p, q
<1> QED
  BY <1>1, <1>4, <1>5, <1>6


(* The same of a block that begins at multiples of its sizes d: its        *)
(* addresses are those whose units have the quotients of its first.        *)
IsAlignedBlock(a, b, d, k, units, top) ==
  /\ IsSpan(a, b, k, units, top)
  /\ \A i \in 1..units : d[i] \in Nat \ {0} /\ a[i] % d[i] = 0 /\ b[i] = a[i] + d[i] - 1

(* Addresses that have the same bits before the free ones, in every unit.  *)
SameQuotients(u, a, d, units) == \A i \in 1..units : u[i] \div d[i] = a[i] \div d[i]

(* The addresses of an aligned block are those alike in their fixed bits.  *)
LEMMA BlockIsAlike ==
  ASSUME NEW units \in {4, 8}, NEW top \in Nat, NEW u \in [1..units -> 0..top],
         NEW a, NEW b, NEW d, NEW k, IsAlignedBlock(a, b, d, k, units, top)
  PROVE  AtMost(a, u) /\ AtMost(u, b) <=> SameQuotients(u, a, d, units)
<1> USE DEF IsAlignedBlock
<1>1. AtMost(a, u) /\ AtMost(u, b) <=> \A i \in 1..units : a[i] <= u[i] /\ u[i] <= b[i]
  BY BlockIsABox
<1>2. ASSUME NEW i \in 1..units
      PROVE  a[i] <= u[i] /\ u[i] <= b[i] <=> u[i] \div d[i] = a[i] \div d[i]
  <2>1. d[i] \in Nat \ {0} /\ a[i] \in Nat /\ u[i] \in Nat /\ a[i] % d[i] = 0
    BY DEF IsSpan
  <2>2. b[i] = a[i] + d[i] - 1
    OBVIOUS
  <2> DEFINE x == u[i]
             y == a[i]
             z == b[i]
             e == d[i]
  <2> HIDE DEF x, y, z, e
  <2>3. y <= x /\ x <= z <=> x \div e = y \div e
    <3>1. e \in Nat \ {0} /\ x \in Nat /\ y \in Nat /\ y % e = 0 /\ z = y + e - 1
      BY <2>1, <2>2 DEF x, y, z, e
    <3>2. y <= x /\ x <= y + e - 1 <=> x \div e = y \div e
      BY <3>1, SameQuotient
    <3> QED
      BY <3>1, <3>2
  <2> QED
    BY <2>3 DEF x, y, z, e
<1> QED
  BY <1>1, <1>2 DEF SameQuotients

(* What a table may list: a network that ends in the unit that the prefix  *)
(* ends in, or before, and of which no bit lies behind the prefix.         *)
LastUnit(row, w) == (row.prefix - 1) \div w + 1
FreeInIt(row, w) == LastUnit(row, w) * w - row.prefix

(* What is required of a row: prefix and network fit the version, and the  *)
(* network has no bit set behind the prefix.                               *)
Listed(row, units, w, top) ==
  /\ row.prefix \in 1..(units * w) /\ FreeInIt(row, w) \in FreeOfTables
  /\ row.network \in Seq(0..top) /\ Len(row.network) <= LastUnit(row, w)
  /\ Len(row.network) = LastUnit(row, w) =>
       /\ row.network[LastUnit(row, w)] % 2 ^ FreeInIt(row, w) = 0
       /\ row.network[LastUnit(row, w)] + 2 ^ FreeInIt(row, w) - 1 <= top

(* The units of an address in the range of a row, as far as the prefix.    *)
NetworkUnit(row, i) == IF i <= Len(row.network) THEN row.network[i] ELSE 0

(* The units of u within the block of a row.                               *)
Within(row, u, w) ==
  LET k == LastUnit(row, w)
  IN  /\ \A i \in 1..(k - 1) : u[i] = NetworkUnit(row, i)
      /\ NetworkUnit(row, k) <= u[k]
      /\ u[k] <= NetworkUnit(row, k) + 2 ^ FreeInIt(row, w) - 1

(* The units of the two versions: how many, how wide, and up to what.      *)
IsVersion(units, w, top) ==
  \/ units = 4 /\ w = 8 /\ top = 255
  \/ units = 8 /\ w = 16 /\ top = 65535

(* The range of a listed row holds the addresses that begin like it.       *)
LEMMA HoldsIfAlike ==
  ASSUME NEW units, NEW w, NEW top,
         IsVersion(units, w, top),
         NEW u \in [1..units -> 0..top], NEW row, Listed(row, units, w, top)
  PROVE  /\ Holds(row, u) <=> BeginsLike(u, row)
         /\ Holds(row, u) => Within(row, u, w)
<1> DEFINE k == LastUnit(row, w)
           free == FreeInIt(row, w)
           a == First(row, u)
           f == [i \in 1..units |-> FreeBits(row.prefix, i, w)]
           d == [i \in 1..units |-> 2 ^ f[i]]
<1>0. (units = 4 /\ w = 8 /\ top = 255) \/ (units = 8 /\ w = 16 /\ top = 65535)
  BY DEF IsVersion
<1>1. /\ row.prefix \in 1..(units * w) /\ free \in FreeOfTables
      /\ row.network \in Seq(0..top) /\ Len(row.network) <= k
      /\ Len(row.network) = k =>
           row.network[k] % 2 ^ free = 0 /\ row.network[k] + 2 ^ free - 1 <= top
  BY DEF Listed
<1>2. units \in {4, 8} /\ top \in Nat
  BY <1>0
<1>3. Len(u) = units /\ UnitBits(u) = w
  <2> /\ units = 4 => UnitBits(u) = 8
      /\ units = 8 => UnitBits(u) = 16
      /\ Len(u) = units
    BY <1>2, UnitsOf
  <2> QED
    BY <1>0
<1>4. k \in 1..units /\ (k - 1) * w < row.prefix /\ row.prefix <= k * w
  <2> DEFINE m == row.prefix - 1
             q == m \div w
  <2>1. m \in 0..(units * w - 1) /\ w \in Nat \ {0}
    BY <1>0, <1>1
  <2>2. q \in Nat /\ w * q <= m /\ m < w * q + w
    <3> HIDE DEF m
    <3>1. m \in Nat
      BY <1>0, <2>1
    <3> QED
      BY <2>1, <3>1, Quotient
  <2>3. k = q + 1
    BY DEF LastUnit
  <2>4. row.prefix = m + 1
    BY <1>0, <1>1
  <2> HIDE DEF k, m, q
  <2> QED
    BY <1>0, <2>1, <2>2, <2>3, <2>4
<1>5. free = k * w - row.prefix /\ free < w
  <2>1. free = k * w - row.prefix
    BY DEF FreeInIt
  <2> HIDE DEF k, free
  <2> QED
    BY <1>0, <1>1, <1>4, <2>1
<1> HIDE DEF k, free
<1>6. /\ \A i \in 1..units : i < k => f[i] = 0
      /\ f[k] = free
      /\ \A i \in 1..units : i > k => f[i] = w
  <2> SUFFICES ASSUME NEW i \in 1..units
               PROVE  /\ i < k => FreeBits(row.prefix, i, w) = 0
                      /\ i = k => FreeBits(row.prefix, i, w) = free
                      /\ i > k => FreeBits(row.prefix, i, w) = w
    BY <1>4
  <2> DEFINE p == row.prefix
  <2>1. p \in Int /\ k \in Int /\ free \in Int
    BY <1>0, <1>1, <1>4, <1>5
  <2>2. (k - 1) * w < p /\ p <= k * w /\ free = k * w - p /\ free < w
    BY <1>4, <1>5
  <2> HIDE DEF p
  <2>3. /\ i < k => FreeBits(p, i, w) = 0
        /\ i = k => FreeBits(p, i, w) = free
        /\ i > k => FreeBits(p, i, w) = w
    <3>1. CASE w = 8
      BY <2>1, <2>2, <3>1 DEF FreeBits, Least
    <3>2. CASE w = 16
      BY <2>1, <2>2, <3>2 DEF FreeBits, Least
    <3> QED
      BY <1>0, <3>1, <3>2
  <2> QED
    BY <2>3 DEF p
<1>7. /\ a \in [1..units -> 0..top]
      /\ \A i \in 1..units : i > k => a[i] = 0
      /\ Len(row.network) = k => a[k] = row.network[k]
      /\ Len(row.network) # k => a[k] = 0
  BY <1>1, <1>2, <1>3, <1>4, SMTT(30) DEF First
<1> HIDE DEF a, f
<1>8. /\ \A i \in 1..units : i < k => d[i] = 1
      /\ d[k] = 2 ^ free
      /\ \A i \in 1..units : i > k => d[i] = top + 1
  <2>1. \A i \in 1..units : i < k => d[i] = 1
    BY <1>6, Powers
  <2>2. \A i \in 1..units : i > k => d[i] = top + 1
    BY <1>0, <1>6, Powers
  <2> QED
    BY <1>4, <1>6, <2>1, <2>2
<1>9. 2 ^ free \in 1..(top + 1)
  <2>1. 2 ^ free \in {1, 2, 16, 64, 256, 512} \/ free = 16
    BY <1>1, Powers DEF FreeOfTables
  <2>2. w = 8 => 2 ^ free \in {1, 2, 16, 64}
    BY <1>1, <1>5, Powers DEF FreeOfTables
  <2> QED
    BY <1>0, <1>5, <2>1, <2>2
<1> HIDE DEF d
<1>10. /\ a[k] % 2 ^ free = 0
       /\ a[k] + 2 ^ free - 1 <= top
  <2>1. CASE Len(row.network) = k
    BY <1>1, <1>7, <2>1
  <2>2. CASE Len(row.network) # k
    BY <1>2, <1>7, <1>9, <2>2
  <2> QED
    BY <2>1, <2>2
<1>11. \A i \in 1..units : d[i] \in 1..(top + 1)
  <2> SUFFICES ASSUME NEW i \in 1..units PROVE d[i] \in 1..(top + 1)
    OBVIOUS
  <2>1. CASE i < k
    BY <1>2, <1>8, <2>1
  <2>2. CASE i = k
    BY <1>8, <1>9, <2>2
  <2>3. CASE i > k
    BY <1>2, <1>8, <2>3
  <2> QED
    BY <1>2, <1>4, <2>1, <2>2, <2>3
<1>12. \A i \in 1..units : a[i] % d[i] = 0
  <2> SUFFICES ASSUME NEW i \in 1..units PROVE a[i] % d[i] = 0
    OBVIOUS
  <2>1. a[i] \in Nat /\ d[i] \in Nat \ {0}
    BY <1>2, <1>7, <1>11
  <2>2. CASE i < k
    BY <1>8, <2>1, <2>2
  <2>3. CASE i = k
    BY <1>8, <1>10, <2>3
  <2>4. CASE i > k
    BY <1>7, <2>1, <2>4
  <2> QED
    BY <1>2, <1>4, <2>2, <2>3, <2>4
<1>13. End(row, u) = [i \in 1..units |-> a[i] + d[i] - 1]
  BY <1>3 DEF End, a, d, f
<1>14. /\ Holds(row, u) <=> SameQuotients(u, a, d, units)
       /\ Holds(row, u) => \A i \in 1..units : a[i] <= u[i] /\ u[i] <= a[i] + d[i] - 1
  <2> DEFINE b == End(row, u)
  <2>1. \A i \in 1..units : b[i] = a[i] + d[i] - 1
    BY <1>13
  <2>2. b \in [1..units -> 0..top]
    <3> SUFFICES ASSUME NEW i \in 1..units PROVE a[i] + d[i] - 1 \in 0..top
      BY <1>13
    <3>1. a[i] \in 0..top /\ d[i] \in 1..(top + 1)
      BY <1>7, <1>11
    <3>2. CASE i < k
      BY <1>2, <1>8, <3>1, <3>2
    <3>3. CASE i = k
      BY <1>2, <1>8, <1>10, <3>1, <3>3
    <3>4. CASE i > k
      BY <1>2, <1>7, <1>8, <3>1, <3>4, SMTT(30)
    <3> QED
      BY <1>2, <1>4, <3>2, <3>3, <3>4
  <2> HIDE DEF b
  <2>3. IsSpan(a, b, k, units, top)
    <3>1. \A i \in 1..units : a[i] \in 0..top
      BY <1>7
    <3>2. \A i \in 1..units : i < k => b[i] = a[i]
      BY <1>2, <1>8, <2>1, <3>1
    <3>3. a[k] <= b[k]
      <4>1. a[k] \in Nat /\ d[k] \in Nat /\ d[k] >= 1
        BY <1>2, <1>4, <1>11, <3>1
      <4>2. b[k] = a[k] + d[k] - 1
        BY <1>4, <2>1
      <4> QED
        BY <4>1, <4>2
    <3>4. \A i \in 1..units : i > k => a[i] = 0 /\ b[i] = top
      <4> SUFFICES ASSUME NEW i \in 1..units, i > k PROVE a[i] = 0 /\ b[i] = top
        OBVIOUS
      <4>1. a[i] = 0 /\ d[i] = top + 1 /\ b[i] = a[i] + d[i] - 1
        BY <1>7, <1>8, <2>1
      <4> QED
        BY <1>2, <4>1
    <3> QED
      BY <1>4, <1>7, <2>2, <3>2, <3>3, <3>4 DEF IsSpan
  <2>4. IsAlignedBlock(a, b, d, k, units, top)
    BY <1>2, <1>11, <1>12, <2>1, <2>3 DEF IsAlignedBlock
  <2>5. AtMost(a, u) /\ AtMost(u, b) <=> SameQuotients(u, a, d, units)
    BY <1>2, <2>4, BlockIsAlike
  <2>6. AtMost(a, u) /\ AtMost(u, b) <=> \A i \in 1..units : a[i] <= u[i] /\ u[i] <= b[i]
    BY <1>2, <2>3, BlockIsABox
  <2> QED
    BY <2>1, <2>5, <2>6 DEF Holds, a, b
<1>15. BeginsLike(u, row) <=> SameQuotients(u, a, d, units)
  BY <1>3 DEF BeginsLike, SameQuotients, a, d, f
<1>16. ASSUME Holds(row, u) PROVE Within(row, u, w)
  <2>1. \A i \in 1..units : a[i] <= u[i] /\ u[i] <= a[i] + d[i] - 1
    BY <1>14, <1>16
  <2>2. \A i \in 1..units : a[i] = NetworkUnit(row, i)
    BY <1>3 DEF NetworkUnit, First, a
  <2>3. \A i \in 1..units : u[i] \in Int /\ a[i] \in Int
    BY <1>2, <1>7
  <2>4. \A i \in 1..(k - 1) : i \in 1..units /\ i < k
    BY <1>2, <1>4
  <2>5. \A i \in 1..(k - 1) : u[i] = a[i]
    BY <1>8, <2>1, <2>3, <2>4
  <2>6. a[k] <= u[k] /\ u[k] <= a[k] + 2 ^ free - 1
    BY <1>4, <1>8, <2>1
  <2> QED
    BY <1>4, <2>2, <2>4, <2>5, <2>6 DEF Within, k, free
<1> QED
  BY <1>14, <1>15, <1>16


(* Within, said unit by unit.                                              *)
LEMMA Unfolded ==
  ASSUME NEW row, NEW u, NEW w, NEW k, NEW d,
         LastUnit(row, w) = k, 2 ^ FreeInIt(row, w) = d, Within(row, u, w)
  PROVE  /\ \A i \in 1..(k - 1) : u[i] = NetworkUnit(row, i)
         /\ NetworkUnit(row, k) <= u[k] /\ u[k] <= NetworkUnit(row, k) + d - 1
BY DEF Within

(* Every row of the tables is listed, and no address is in the ranges of   *)
(* two rows, but for 255.255.255.255, which is in those of the last two.   *)
LEMMA TableV4 ==
  /\ Len(SpecialV4) = 14
  /\ \A j \in 1..14 : Listed(SpecialV4[j], 4, 8, 255)
  /\ \A u \in [1..4 -> Int] : \A i, j \in 1..14 :
       i < j /\ Within(SpecialV4[i], u, 8) /\ Within(SpecialV4[j], u, 8) => i = 13 /\ j = 14
<1>0. Len(SpecialV4) = 14
  BY DEF SpecialV4
<1>1. /\ Listed(SpecialV4[1], 4, 8, 255)
      /\ \A u \in [1..4 -> Int] : Within(SpecialV4[1], u, 8) => u[1] = 0
  <2>1. SpecialV4[1].network = <<0>> /\ SpecialV4[1].prefix = 8
    BY DEF SpecialV4, Row
  <2>2. LastUnit(SpecialV4[1], 8) = 1 /\ FreeInIt(SpecialV4[1], 8) = 0
    BY <2>1 DEF LastUnit, FreeInIt
  <2>3. Listed(SpecialV4[1], 4, 8, 255)
    BY <2>1, <2>2, Powers DEF Listed, FreeOfTables
  <2>4. NetworkUnit(SpecialV4[1], 1) = 0
    BY <2>1 DEF NetworkUnit
  <2>5. 2 ^ FreeInIt(SpecialV4[1], 8) = 1
    BY <2>2, Powers
  <2>6. ASSUME NEW u \in [1..4 -> Int], Within(SpecialV4[1], u, 8) PROVE u[1] = 0
    <3>1. u[1] \in Int
      OBVIOUS
    <3>2. /\ \A i \in 1..(1 - 1) : u[i] = NetworkUnit(SpecialV4[1], i)
          /\ NetworkUnit(SpecialV4[1], 1) <= u[1]
          /\ u[1] <= NetworkUnit(SpecialV4[1], 1) + 1 - 1
      BY <2>2, <2>5, <2>6, Unfolded
    <3> QED
      BY <2>4, <3>1, <3>2, SMT
  <2> QED
    BY <2>3, <2>6
<1>2. /\ Listed(SpecialV4[2], 4, 8, 255)
      /\ \A u \in [1..4 -> Int] : Within(SpecialV4[2], u, 8) => u[1] = 10
  <2>1. SpecialV4[2].network = <<10>> /\ SpecialV4[2].prefix = 8
    BY DEF SpecialV4, Row
  <2>2. LastUnit(SpecialV4[2], 8) = 1 /\ FreeInIt(SpecialV4[2], 8) = 0
    BY <2>1 DEF LastUnit, FreeInIt
  <2>3. Listed(SpecialV4[2], 4, 8, 255)
    BY <2>1, <2>2, Powers DEF Listed, FreeOfTables
  <2>4. NetworkUnit(SpecialV4[2], 1) = 10
    BY <2>1 DEF NetworkUnit
  <2>5. 2 ^ FreeInIt(SpecialV4[2], 8) = 1
    BY <2>2, Powers
  <2>6. ASSUME NEW u \in [1..4 -> Int], Within(SpecialV4[2], u, 8) PROVE u[1] = 10
    <3>1. u[1] \in Int
      OBVIOUS
    <3>2. /\ \A i \in 1..(1 - 1) : u[i] = NetworkUnit(SpecialV4[2], i)
          /\ NetworkUnit(SpecialV4[2], 1) <= u[1]
          /\ u[1] <= NetworkUnit(SpecialV4[2], 1) + 1 - 1
      BY <2>2, <2>5, <2>6, Unfolded
    <3> QED
      BY <2>4, <3>1, <3>2, SMT
  <2> QED
    BY <2>3, <2>6
<1>3. /\ Listed(SpecialV4[3], 4, 8, 255)
      /\ \A u \in [1..4 -> Int] : Within(SpecialV4[3], u, 8) => u[1] = 100
  <2>1. SpecialV4[3].network = <<100, 64>> /\ SpecialV4[3].prefix = 10
    BY DEF SpecialV4, Row
  <2>2. LastUnit(SpecialV4[3], 8) = 2 /\ FreeInIt(SpecialV4[3], 8) = 6
    BY <2>1 DEF LastUnit, FreeInIt
  <2>3. Listed(SpecialV4[3], 4, 8, 255)
    BY <2>1, <2>2, Powers DEF Listed, FreeOfTables
  <2>4. NetworkUnit(SpecialV4[3], 1) = 100 /\ NetworkUnit(SpecialV4[3], 2) = 64
    BY <2>1 DEF NetworkUnit
  <2>5. 2 ^ FreeInIt(SpecialV4[3], 8) = 64
    BY <2>2, Powers
  <2>6. ASSUME NEW u \in [1..4 -> Int], Within(SpecialV4[3], u, 8) PROVE u[1] = 100
    <3>1. u[1] \in Int /\ u[2] \in Int
      OBVIOUS
    <3>2. /\ \A i \in 1..(2 - 1) : u[i] = NetworkUnit(SpecialV4[3], i)
          /\ NetworkUnit(SpecialV4[3], 2) <= u[2]
          /\ u[2] <= NetworkUnit(SpecialV4[3], 2) + 64 - 1
      BY <2>2, <2>5, <2>6, Unfolded
    <3> QED
      BY <2>4, <3>1, <3>2, SMT
  <2> QED
    BY <2>3, <2>6
<1>4. /\ Listed(SpecialV4[4], 4, 8, 255)
      /\ \A u \in [1..4 -> Int] : Within(SpecialV4[4], u, 8) => u[1] = 127
  <2>1. SpecialV4[4].network = <<127>> /\ SpecialV4[4].prefix = 8
    BY DEF SpecialV4, Row
  <2>2. LastUnit(SpecialV4[4], 8) = 1 /\ FreeInIt(SpecialV4[4], 8) = 0
    BY <2>1 DEF LastUnit, FreeInIt
  <2>3. Listed(SpecialV4[4], 4, 8, 255)
    BY <2>1, <2>2, Powers DEF Listed, FreeOfTables
  <2>4. NetworkUnit(SpecialV4[4], 1) = 127
    BY <2>1 DEF NetworkUnit
  <2>5. 2 ^ FreeInIt(SpecialV4[4], 8) = 1
    BY <2>2, Powers
  <2>6. ASSUME NEW u \in [1..4 -> Int], Within(SpecialV4[4], u, 8) PROVE u[1] = 127
    <3>1. u[1] \in Int
      OBVIOUS
    <3>2. /\ \A i \in 1..(1 - 1) : u[i] = NetworkUnit(SpecialV4[4], i)
          /\ NetworkUnit(SpecialV4[4], 1) <= u[1]
          /\ u[1] <= NetworkUnit(SpecialV4[4], 1) + 1 - 1
      BY <2>2, <2>5, <2>6, Unfolded
    <3> QED
      BY <2>4, <3>1, <3>2, SMT
  <2> QED
    BY <2>3, <2>6
<1>5. /\ Listed(SpecialV4[5], 4, 8, 255)
      /\ \A u \in [1..4 -> Int] : Within(SpecialV4[5], u, 8) => u[1] = 169
  <2>1. SpecialV4[5].network = <<169, 254>> /\ SpecialV4[5].prefix = 16
    BY DEF SpecialV4, Row
  <2>2. LastUnit(SpecialV4[5], 8) = 2 /\ FreeInIt(SpecialV4[5], 8) = 0
    BY <2>1 DEF LastUnit, FreeInIt
  <2>3. Listed(SpecialV4[5], 4, 8, 255)
    BY <2>1, <2>2, Powers DEF Listed, FreeOfTables
  <2>4. NetworkUnit(SpecialV4[5], 1) = 169 /\ NetworkUnit(SpecialV4[5], 2) = 254
    BY <2>1 DEF NetworkUnit
  <2>5. 2 ^ FreeInIt(SpecialV4[5], 8) = 1
    BY <2>2, Powers
  <2>6. ASSUME NEW u \in [1..4 -> Int], Within(SpecialV4[5], u, 8) PROVE u[1] = 169
    <3>1. u[1] \in Int /\ u[2] \in Int
      OBVIOUS
    <3>2. /\ \A i \in 1..(2 - 1) : u[i] = NetworkUnit(SpecialV4[5], i)
          /\ NetworkUnit(SpecialV4[5], 2) <= u[2]
          /\ u[2] <= NetworkUnit(SpecialV4[5], 2) + 1 - 1
      BY <2>2, <2>5, <2>6, Unfolded
    <3> QED
      BY <2>4, <3>1, <3>2, SMT
  <2> QED
    BY <2>3, <2>6
<1>6. /\ Listed(SpecialV4[6], 4, 8, 255)
      /\ \A u \in [1..4 -> Int] : Within(SpecialV4[6], u, 8) => u[1] = 172
  <2>1. SpecialV4[6].network = <<172, 16>> /\ SpecialV4[6].prefix = 12
    BY DEF SpecialV4, Row
  <2>2. LastUnit(SpecialV4[6], 8) = 2 /\ FreeInIt(SpecialV4[6], 8) = 4
    BY <2>1 DEF LastUnit, FreeInIt
  <2>3. Listed(SpecialV4[6], 4, 8, 255)
    BY <2>1, <2>2, Powers DEF Listed, FreeOfTables
  <2>4. NetworkUnit(SpecialV4[6], 1) = 172 /\ NetworkUnit(SpecialV4[6], 2) = 16
    BY <2>1 DEF NetworkUnit
  <2>5. 2 ^ FreeInIt(SpecialV4[6], 8) = 16
    BY <2>2, Powers
  <2>6. ASSUME NEW u \in [1..4 -> Int], Within(SpecialV4[6], u, 8) PROVE u[1] = 172
    <3>1. u[1] \in Int /\ u[2] \in Int
      OBVIOUS
    <3>2. /\ \A i \in 1..(2 - 1) : u[i] = NetworkUnit(SpecialV4[6], i)
          /\ NetworkUnit(SpecialV4[6], 2) <= u[2]
          /\ u[2] <= NetworkUnit(SpecialV4[6], 2) + 16 - 1
      BY <2>2, <2>5, <2>6, Unfolded
    <3> QED
      BY <2>4, <3>1, <3>2, SMT
  <2> QED
    BY <2>3, <2>6
<1>7. /\ Listed(SpecialV4[7], 4, 8, 255)
      /\ \A u \in [1..4 -> Int] : Within(SpecialV4[7], u, 8) => u[1] = 192 /\ u[2] = 0
  <2>1. SpecialV4[7].network = <<192, 0, 2>> /\ SpecialV4[7].prefix = 24
    BY DEF SpecialV4, Row
  <2>2. LastUnit(SpecialV4[7], 8) = 3 /\ FreeInIt(SpecialV4[7], 8) = 0
    BY <2>1 DEF LastUnit, FreeInIt
  <2>3. Listed(SpecialV4[7], 4, 8, 255)
    BY <2>1, <2>2, Powers DEF Listed, FreeOfTables
  <2>4. NetworkUnit(SpecialV4[7], 1) = 192 /\ NetworkUnit(SpecialV4[7], 2) = 0 /\ NetworkUnit(SpecialV4[7], 3) = 2
    BY <2>1 DEF NetworkUnit
  <2>5. 2 ^ FreeInIt(SpecialV4[7], 8) = 1
    BY <2>2, Powers
  <2>6. ASSUME NEW u \in [1..4 -> Int], Within(SpecialV4[7], u, 8) PROVE u[1] = 192 /\ u[2] = 0
    <3>1. u[1] \in Int /\ u[2] \in Int /\ u[3] \in Int
      OBVIOUS
    <3>2. /\ \A i \in 1..(3 - 1) : u[i] = NetworkUnit(SpecialV4[7], i)
          /\ NetworkUnit(SpecialV4[7], 3) <= u[3]
          /\ u[3] <= NetworkUnit(SpecialV4[7], 3) + 1 - 1
      BY <2>2, <2>5, <2>6, Unfolded
    <3> QED
      BY <2>4, <3>1, <3>2, SMT
  <2> QED
    BY <2>3, <2>6
<1>8. /\ Listed(SpecialV4[8], 4, 8, 255)
      /\ \A u \in [1..4 -> Int] : Within(SpecialV4[8], u, 8) => u[1] = 192 /\ u[2] = 168
  <2>1. SpecialV4[8].network = <<192, 168>> /\ SpecialV4[8].prefix = 16
    BY DEF SpecialV4, Row
  <2>2. LastUnit(SpecialV4[8], 8) = 2 /\ FreeInIt(SpecialV4[8], 8) = 0
    BY <2>1 DEF LastUnit, FreeInIt
  <2>3. Listed(SpecialV4[8], 4, 8, 255)
    BY <2>1, <2>2, Powers DEF Listed, FreeOfTables
  <2>4. NetworkUnit(SpecialV4[8], 1) = 192 /\ NetworkUnit(SpecialV4[8], 2) = 168
    BY <2>1 DEF NetworkUnit
  <2>5. 2 ^ FreeInIt(SpecialV4[8], 8) = 1
    BY <2>2, Powers
  <2>6. ASSUME NEW u \in [1..4 -> Int], Within(SpecialV4[8], u, 8) PROVE u[1] = 192 /\ u[2] = 168
    <3>1. u[1] \in Int /\ u[2] \in Int
      OBVIOUS
    <3>2. /\ \A i \in 1..(2 - 1) : u[i] = NetworkUnit(SpecialV4[8], i)
          /\ NetworkUnit(SpecialV4[8], 2) <= u[2]
          /\ u[2] <= NetworkUnit(SpecialV4[8], 2) + 1 - 1
      BY <2>2, <2>5, <2>6, Unfolded
    <3> QED
      BY <2>4, <3>1, <3>2, SMT
  <2> QED
    BY <2>3, <2>6
<1>9. /\ Listed(SpecialV4[9], 4, 8, 255)
      /\ \A u \in [1..4 -> Int] : Within(SpecialV4[9], u, 8) => u[1] = 198 /\ u[2] \in 18..19
  <2>1. SpecialV4[9].network = <<198, 18>> /\ SpecialV4[9].prefix = 15
    BY DEF SpecialV4, Row
  <2>2. LastUnit(SpecialV4[9], 8) = 2 /\ FreeInIt(SpecialV4[9], 8) = 1
    BY <2>1 DEF LastUnit, FreeInIt
  <2>3. Listed(SpecialV4[9], 4, 8, 255)
    BY <2>1, <2>2, Powers DEF Listed, FreeOfTables
  <2>4. NetworkUnit(SpecialV4[9], 1) = 198 /\ NetworkUnit(SpecialV4[9], 2) = 18
    BY <2>1 DEF NetworkUnit
  <2>5. 2 ^ FreeInIt(SpecialV4[9], 8) = 2
    BY <2>2, Powers
  <2>6. ASSUME NEW u \in [1..4 -> Int], Within(SpecialV4[9], u, 8) PROVE u[1] = 198 /\ u[2] \in 18..19
    <3>1. u[1] \in Int /\ u[2] \in Int
      OBVIOUS
    <3>2. /\ \A i \in 1..(2 - 1) : u[i] = NetworkUnit(SpecialV4[9], i)
          /\ NetworkUnit(SpecialV4[9], 2) <= u[2]
          /\ u[2] <= NetworkUnit(SpecialV4[9], 2) + 2 - 1
      BY <2>2, <2>5, <2>6, Unfolded
    <3> QED
      BY <2>4, <3>1, <3>2, SMT
  <2> QED
    BY <2>3, <2>6
<1>10. /\ Listed(SpecialV4[10], 4, 8, 255)
      /\ \A u \in [1..4 -> Int] : Within(SpecialV4[10], u, 8) => u[1] = 198 /\ u[2] = 51
  <2>1. SpecialV4[10].network = <<198, 51, 100>> /\ SpecialV4[10].prefix = 24
    BY DEF SpecialV4, Row
  <2>2. LastUnit(SpecialV4[10], 8) = 3 /\ FreeInIt(SpecialV4[10], 8) = 0
    BY <2>1 DEF LastUnit, FreeInIt
  <2>3. Listed(SpecialV4[10], 4, 8, 255)
    BY <2>1, <2>2, Powers DEF Listed, FreeOfTables
  <2>4. NetworkUnit(SpecialV4[10], 1) = 198 /\ NetworkUnit(SpecialV4[10], 2) = 51 /\ NetworkUnit(SpecialV4[10], 3) = 100
    BY <2>1 DEF NetworkUnit
  <2>5. 2 ^ FreeInIt(SpecialV4[10], 8) = 1
    BY <2>2, Powers
  <2>6. ASSUME NEW u \in [1..4 -> Int], Within(SpecialV4[10], u, 8) PROVE u[1] = 198 /\ u[2] = 51
    <3>1. u[1] \in Int /\ u[2] \in Int /\ u[3] \in Int
      OBVIOUS
    <3>2. /\ \A i \in 1..(3 - 1) : u[i] = NetworkUnit(SpecialV4[10], i)
          /\ NetworkUnit(SpecialV4[10], 3) <= u[3]
          /\ u[3] <= NetworkUnit(SpecialV4[10], 3) + 1 - 1
      BY <2>2, <2>5, <2>6, Unfolded
    <3> QED
      BY <2>4, <3>1, <3>2, SMT
  <2> QED
    BY <2>3, <2>6
<1>11. /\ Listed(SpecialV4[11], 4, 8, 255)
      /\ \A u \in [1..4 -> Int] : Within(SpecialV4[11], u, 8) => u[1] = 203
  <2>1. SpecialV4[11].network = <<203, 0, 113>> /\ SpecialV4[11].prefix = 24
    BY DEF SpecialV4, Row
  <2>2. LastUnit(SpecialV4[11], 8) = 3 /\ FreeInIt(SpecialV4[11], 8) = 0
    BY <2>1 DEF LastUnit, FreeInIt
  <2>3. Listed(SpecialV4[11], 4, 8, 255)
    BY <2>1, <2>2, Powers DEF Listed, FreeOfTables
  <2>4. NetworkUnit(SpecialV4[11], 1) = 203 /\ NetworkUnit(SpecialV4[11], 3) = 113
    BY <2>1 DEF NetworkUnit
  <2>5. 2 ^ FreeInIt(SpecialV4[11], 8) = 1
    BY <2>2, Powers
  <2>6. ASSUME NEW u \in [1..4 -> Int], Within(SpecialV4[11], u, 8) PROVE u[1] = 203
    <3>1. u[1] \in Int /\ u[3] \in Int
      OBVIOUS
    <3>2. /\ \A i \in 1..(3 - 1) : u[i] = NetworkUnit(SpecialV4[11], i)
          /\ NetworkUnit(SpecialV4[11], 3) <= u[3]
          /\ u[3] <= NetworkUnit(SpecialV4[11], 3) + 1 - 1
      BY <2>2, <2>5, <2>6, Unfolded
    <3> QED
      BY <2>4, <3>1, <3>2, SMT
  <2> QED
    BY <2>3, <2>6
<1>12. /\ Listed(SpecialV4[12], 4, 8, 255)
      /\ \A u \in [1..4 -> Int] : Within(SpecialV4[12], u, 8) => 224 <= u[1] /\ u[1] <= 239
  <2>1. SpecialV4[12].network = <<224>> /\ SpecialV4[12].prefix = 4
    BY DEF SpecialV4, Row
  <2>2. LastUnit(SpecialV4[12], 8) = 1 /\ FreeInIt(SpecialV4[12], 8) = 4
    BY <2>1 DEF LastUnit, FreeInIt
  <2>3. Listed(SpecialV4[12], 4, 8, 255)
    BY <2>1, <2>2, Powers DEF Listed, FreeOfTables
  <2>4. NetworkUnit(SpecialV4[12], 1) = 224
    BY <2>1 DEF NetworkUnit
  <2>5. 2 ^ FreeInIt(SpecialV4[12], 8) = 16
    BY <2>2, Powers
  <2>6. ASSUME NEW u \in [1..4 -> Int], Within(SpecialV4[12], u, 8) PROVE 224 <= u[1] /\ u[1] <= 239
    <3>1. u[1] \in Int
      OBVIOUS
    <3>2. /\ \A i \in 1..(1 - 1) : u[i] = NetworkUnit(SpecialV4[12], i)
          /\ NetworkUnit(SpecialV4[12], 1) <= u[1]
          /\ u[1] <= NetworkUnit(SpecialV4[12], 1) + 16 - 1
      BY <2>2, <2>5, <2>6, Unfolded
    <3> QED
      BY <2>4, <3>1, <3>2, SMT
  <2> QED
    BY <2>3, <2>6
<1>13. /\ Listed(SpecialV4[13], 4, 8, 255)
      /\ \A u \in [1..4 -> Int] : Within(SpecialV4[13], u, 8) => 240 <= u[1] /\ u[1] <= 255
  <2>1. SpecialV4[13].network = <<240>> /\ SpecialV4[13].prefix = 4
    BY DEF SpecialV4, Row
  <2>2. LastUnit(SpecialV4[13], 8) = 1 /\ FreeInIt(SpecialV4[13], 8) = 4
    BY <2>1 DEF LastUnit, FreeInIt
  <2>3. Listed(SpecialV4[13], 4, 8, 255)
    BY <2>1, <2>2, Powers DEF Listed, FreeOfTables
  <2>4. NetworkUnit(SpecialV4[13], 1) = 240
    BY <2>1 DEF NetworkUnit
  <2>5. 2 ^ FreeInIt(SpecialV4[13], 8) = 16
    BY <2>2, Powers
  <2>6. ASSUME NEW u \in [1..4 -> Int], Within(SpecialV4[13], u, 8) PROVE 240 <= u[1] /\ u[1] <= 255
    <3>1. u[1] \in Int
      OBVIOUS
    <3>2. /\ \A i \in 1..(1 - 1) : u[i] = NetworkUnit(SpecialV4[13], i)
          /\ NetworkUnit(SpecialV4[13], 1) <= u[1]
          /\ u[1] <= NetworkUnit(SpecialV4[13], 1) + 16 - 1
      BY <2>2, <2>5, <2>6, Unfolded
    <3> QED
      BY <2>4, <3>1, <3>2, SMT
  <2> QED
    BY <2>3, <2>6
<1>14. /\ Listed(SpecialV4[14], 4, 8, 255)
      /\ \A u \in [1..4 -> Int] : Within(SpecialV4[14], u, 8) => u[1] = 255
  <2>1. SpecialV4[14].network = <<255, 255, 255, 255>> /\ SpecialV4[14].prefix = 32
    BY DEF SpecialV4, Row
  <2>2. LastUnit(SpecialV4[14], 8) = 4 /\ FreeInIt(SpecialV4[14], 8) = 0
    BY <2>1 DEF LastUnit, FreeInIt
  <2>3. Listed(SpecialV4[14], 4, 8, 255)
    BY <2>1, <2>2, Powers DEF Listed, FreeOfTables
  <2>4. NetworkUnit(SpecialV4[14], 1) = 255 /\ NetworkUnit(SpecialV4[14], 4) = 255
    BY <2>1 DEF NetworkUnit
  <2>5. 2 ^ FreeInIt(SpecialV4[14], 8) = 1
    BY <2>2, Powers
  <2>6. ASSUME NEW u \in [1..4 -> Int], Within(SpecialV4[14], u, 8) PROVE u[1] = 255
    <3>1. u[1] \in Int /\ u[4] \in Int
      OBVIOUS
    <3>2. /\ \A i \in 1..(4 - 1) : u[i] = NetworkUnit(SpecialV4[14], i)
          /\ NetworkUnit(SpecialV4[14], 4) <= u[4]
          /\ u[4] <= NetworkUnit(SpecialV4[14], 4) + 1 - 1
      BY <2>2, <2>5, <2>6, Unfolded
    <3> QED
      BY <2>4, <3>1, <3>2, SMT
  <2> QED
    BY <2>3, <2>6
<1>15. \A j \in 1..14 : Listed(SpecialV4[j], 4, 8, 255)
  BY <1>1, <1>2, <1>3, <1>4, <1>5, <1>6, <1>7, <1>8, <1>9, <1>10, <1>11, <1>12, <1>13, <1>14, SMT
<1>16. ASSUME NEW u \in [1..4 -> Int]
      PROVE  \A i, j \in 1..14 :
               i < j /\ Within(SpecialV4[i], u, 8) /\ Within(SpecialV4[j], u, 8) => i = 13 /\ j = 14
  <2>1. /\ Within(SpecialV4[1], u, 8) => u[1] = 0
        /\ Within(SpecialV4[2], u, 8) => u[1] = 10
        /\ Within(SpecialV4[3], u, 8) => u[1] = 100
        /\ Within(SpecialV4[4], u, 8) => u[1] = 127
        /\ Within(SpecialV4[5], u, 8) => u[1] = 169
        /\ Within(SpecialV4[6], u, 8) => u[1] = 172
        /\ Within(SpecialV4[7], u, 8) => u[1] = 192 /\ u[2] = 0
        /\ Within(SpecialV4[8], u, 8) => u[1] = 192 /\ u[2] = 168
        /\ Within(SpecialV4[9], u, 8) => u[1] = 198 /\ u[2] \in 18..19
        /\ Within(SpecialV4[10], u, 8) => u[1] = 198 /\ u[2] = 51
        /\ Within(SpecialV4[11], u, 8) => u[1] = 203
        /\ Within(SpecialV4[12], u, 8) => 224 <= u[1] /\ u[1] <= 239
        /\ Within(SpecialV4[13], u, 8) => 240 <= u[1] /\ u[1] <= 255
        /\ Within(SpecialV4[14], u, 8) => u[1] = 255
    BY <1>1, <1>2, <1>3, <1>4, <1>5, <1>6, <1>7, <1>8, <1>9, <1>10, <1>11, <1>12, <1>13, <1>14
  <2>2. u[1] \in Int /\ u[2] \in Int
    OBVIOUS
  <2> DEFINE P(j) == Within(SpecialV4[j], u, 8)
             x == u[1]
             y == u[2]
  <2>3. \A i, j \in 1..14 : i < j /\ P(i) /\ P(j) => i = 13 /\ j = 14
    <3>1. /\ P(1) => x = 0
          /\ P(2) => x = 10
          /\ P(3) => x = 100
          /\ P(4) => x = 127
          /\ P(5) => x = 169
          /\ P(6) => x = 172
          /\ P(7) => x = 192 /\ y = 0
          /\ P(8) => x = 192 /\ y = 168
          /\ P(9) => x = 198 /\ y \in 18..19
          /\ P(10) => x = 198 /\ y = 51
          /\ P(11) => x = 203
          /\ P(12) => 224 <= x /\ x <= 239
          /\ P(13) => 240 <= x /\ x <= 255
          /\ P(14) => x = 255
      BY <2>1
    <3>2. x \in Int /\ y \in Int
      BY <2>2
    <3> HIDE DEF P, x, y
    <3> SUFFICES ASSUME NEW i \in 1..14, NEW j \in 1..14, i < j, P(i), P(j) PROVE i = 13 /\ j = 14
      OBVIOUS
    <3>3. i \in {1, 2, 3, 4, 5, 6, 7, 8, 9, 10, 11, 12, 13, 14} /\ j \in {1, 2, 3, 4, 5, 6, 7, 8, 9, 10, 11, 12, 13, 14}
      OBVIOUS
    <3> QED
      BY <3>1, <3>2, <3>3, SMT
  <2> QED
    BY <2>3
<1> QED
  BY <1>0, <1>15, <1>16

(* The rows of version 6 are well-formed, and no two of them overlap.      *)
LEMMA TableV6 ==
  /\ Len(SpecialV6) = 8
  /\ \A j \in 1..8 : Listed(SpecialV6[j], 8, 16, 65535)
  /\ \A u \in [1..8 -> Int] : \A i, j \in 1..8 :
       ~ (i < j /\ Within(SpecialV6[i], u, 16) /\ Within(SpecialV6[j], u, 16))
<1>0. Len(SpecialV6) = 8
  BY DEF SpecialV6
<1>1. /\ Listed(SpecialV6[1], 8, 16, 65535)
      /\ \A u \in [1..8 -> Int] : Within(SpecialV6[1], u, 16) => u[1] = 0 /\ u[8] = 1
  <2>1. SpecialV6[1].network = <<0, 0, 0, 0, 0, 0, 0, 1>> /\ SpecialV6[1].prefix = 128
    BY DEF SpecialV6, Row, Zeros
  <2>2. LastUnit(SpecialV6[1], 16) = 8 /\ FreeInIt(SpecialV6[1], 16) = 0
    BY <2>1 DEF LastUnit, FreeInIt
  <2>3. Listed(SpecialV6[1], 8, 16, 65535)
    BY <2>1, <2>2, Powers DEF Listed, FreeOfTables
  <2>4. NetworkUnit(SpecialV6[1], 1) = 0 /\ NetworkUnit(SpecialV6[1], 8) = 1
    BY <2>1 DEF NetworkUnit
  <2>5. 2 ^ FreeInIt(SpecialV6[1], 16) = 1
    BY <2>2, Powers
  <2>6. ASSUME NEW u \in [1..8 -> Int], Within(SpecialV6[1], u, 16) PROVE u[1] = 0 /\ u[8] = 1
    <3>1. u[1] \in Int /\ u[8] \in Int
      OBVIOUS
    <3>2. /\ \A i \in 1..(8 - 1) : u[i] = NetworkUnit(SpecialV6[1], i)
          /\ NetworkUnit(SpecialV6[1], 8) <= u[8]
          /\ u[8] <= NetworkUnit(SpecialV6[1], 8) + 1 - 1
      BY <2>2, <2>5, <2>6, Unfolded
    <3> QED
      BY <2>4, <3>1, <3>2, SMT
  <2> QED
    BY <2>3, <2>6
<1>2. /\ Listed(SpecialV6[2], 8, 16, 65535)
      /\ \A u \in [1..8 -> Int] : Within(SpecialV6[2], u, 16) => u[1] = 0 /\ u[8] = 0
  <2>1. SpecialV6[2].network = <<>> /\ SpecialV6[2].prefix = 128
    BY DEF SpecialV6, Row
  <2>2. LastUnit(SpecialV6[2], 16) = 8 /\ FreeInIt(SpecialV6[2], 16) = 0
    BY <2>1 DEF LastUnit, FreeInIt
  <2>3. Listed(SpecialV6[2], 8, 16, 65535)
    BY <2>1, <2>2, Powers DEF Listed, FreeOfTables
  <2>4. NetworkUnit(SpecialV6[2], 1) = 0 /\ NetworkUnit(SpecialV6[2], 8) = 0
    BY <2>1 DEF NetworkUnit
  <2>5. 2 ^ FreeInIt(SpecialV6[2], 16) = 1
    BY <2>2, Powers
  <2>6. ASSUME NEW u \in [1..8 -> Int], Within(SpecialV6[2], u, 16) PROVE u[1] = 0 /\ u[8] = 0
    <3>1. u[1] \in Int /\ u[8] \in Int
      OBVIOUS
    <3>2. /\ \A i \in 1..(8 - 1) : u[i] = NetworkUnit(SpecialV6[2], i)
          /\ NetworkUnit(SpecialV6[2], 8) <= u[8]
          /\ u[8] <= NetworkUnit(SpecialV6[2], 8) + 1 - 1
      BY <2>2, <2>5, <2>6, Unfolded
    <3> QED
      BY <2>4, <3>1, <3>2, SMT
  <2> QED
    BY <2>3, <2>6
<1>3. /\ Listed(SpecialV6[3], 8, 16, 65535)
      /\ \A u \in [1..8 -> Int] : Within(SpecialV6[3], u, 16) => u[1] = 100
  <2>1. SpecialV6[3].network = <<100, 65435>> /\ SpecialV6[3].prefix = 96
    BY DEF SpecialV6, Row
  <2>2. LastUnit(SpecialV6[3], 16) = 6 /\ FreeInIt(SpecialV6[3], 16) = 0
    BY <2>1 DEF LastUnit, FreeInIt
  <2>3. Listed(SpecialV6[3], 8, 16, 65535)
    BY <2>1, <2>2, Powers DEF Listed, FreeOfTables
  <2>4. NetworkUnit(SpecialV6[3], 1) = 100 /\ NetworkUnit(SpecialV6[3], 6) = 0
    BY <2>1 DEF NetworkUnit
  <2>5. 2 ^ FreeInIt(SpecialV6[3], 16) = 1
    BY <2>2, Powers
  <2>6. ASSUME NEW u \in [1..8 -> Int], Within(SpecialV6[3], u, 16) PROVE u[1] = 100
    <3>1. u[1] \in Int /\ u[6] \in Int
      OBVIOUS
    <3>2. /\ \A i \in 1..(6 - 1) : u[i] = NetworkUnit(SpecialV6[3], i)
          /\ NetworkUnit(SpecialV6[3], 6) <= u[6]
          /\ u[6] <= NetworkUnit(SpecialV6[3], 6) + 1 - 1
      BY <2>2, <2>5, <2>6, Unfolded
    <3> QED
      BY <2>4, <3>1, <3>2, SMT
  <2> QED
    BY <2>3, <2>6
<1>4. /\ Listed(SpecialV6[4], 8, 16, 65535)
      /\ \A u \in [1..8 -> Int] : Within(SpecialV6[4], u, 16) => u[1] = 256
  <2>1. SpecialV6[4].network = <<256>> /\ SpecialV6[4].prefix = 64
    BY DEF SpecialV6, Row
  <2>2. LastUnit(SpecialV6[4], 16) = 4 /\ FreeInIt(SpecialV6[4], 16) = 0
    BY <2>1 DEF LastUnit, FreeInIt
  <2>3. Listed(SpecialV6[4], 8, 16, 65535)
    BY <2>1, <2>2, Powers DEF Listed, FreeOfTables
  <2>4. NetworkUnit(SpecialV6[4], 1) = 256 /\ NetworkUnit(SpecialV6[4], 4) = 0
    BY <2>1 DEF NetworkUnit
  <2>5. 2 ^ FreeInIt(SpecialV6[4], 16) = 1
    BY <2>2, Powers
  <2>6. ASSUME NEW u \in [1..8 -> Int], Within(SpecialV6[4], u, 16) PROVE u[1] = 256
    <3>1. u[1] \in Int /\ u[4] \in Int
      OBVIOUS
    <3>2. /\ \A i \in 1..(4 - 1) : u[i] = NetworkUnit(SpecialV6[4], i)
          /\ NetworkUnit(SpecialV6[4], 4) <= u[4]
          /\ u[4] <= NetworkUnit(SpecialV6[4], 4) + 1 - 1
      BY <2>2, <2>5, <2>6, Unfolded
    <3> QED
      BY <2>4, <3>1, <3>2, SMT
  <2> QED
    BY <2>3, <2>6
<1>5. /\ Listed(SpecialV6[5], 8, 16, 65535)
      /\ \A u \in [1..8 -> Int] : Within(SpecialV6[5], u, 16) => u[1] = 8193
  <2>1. SpecialV6[5].network = <<8193, 3512>> /\ SpecialV6[5].prefix = 32
    BY DEF SpecialV6, Row
  <2>2. LastUnit(SpecialV6[5], 16) = 2 /\ FreeInIt(SpecialV6[5], 16) = 0
    BY <2>1 DEF LastUnit, FreeInIt
  <2>3. Listed(SpecialV6[5], 8, 16, 65535)
    BY <2>1, <2>2, Powers DEF Listed, FreeOfTables
  <2>4. NetworkUnit(SpecialV6[5], 1) = 8193 /\ NetworkUnit(SpecialV6[5], 2) = 3512
    BY <2>1 DEF NetworkUnit
  <2>5. 2 ^ FreeInIt(SpecialV6[5], 16) = 1
    BY <2>2, Powers
  <2>6. ASSUME NEW u \in [1..8 -> Int], Within(SpecialV6[5], u, 16) PROVE u[1] = 8193
    <3>1. u[1] \in Int /\ u[2] \in Int
      OBVIOUS
    <3>2. /\ \A i \in 1..(2 - 1) : u[i] = NetworkUnit(SpecialV6[5], i)
          /\ NetworkUnit(SpecialV6[5], 2) <= u[2]
          /\ u[2] <= NetworkUnit(SpecialV6[5], 2) + 1 - 1
      BY <2>2, <2>5, <2>6, Unfolded
    <3> QED
      BY <2>4, <3>1, <3>2, SMT
  <2> QED
    BY <2>3, <2>6
<1>6. /\ Listed(SpecialV6[6], 8, 16, 65535)
      /\ \A u \in [1..8 -> Int] : Within(SpecialV6[6], u, 16) => 64512 <= u[1] /\ u[1] <= 65023
  <2>1. SpecialV6[6].network = <<64512>> /\ SpecialV6[6].prefix = 7
    BY DEF SpecialV6, Row
  <2>2. LastUnit(SpecialV6[6], 16) = 1 /\ FreeInIt(SpecialV6[6], 16) = 9
    BY <2>1 DEF LastUnit, FreeInIt
  <2>3. Listed(SpecialV6[6], 8, 16, 65535)
    BY <2>1, <2>2, Powers DEF Listed, FreeOfTables
  <2>4. NetworkUnit(SpecialV6[6], 1) = 64512
    BY <2>1 DEF NetworkUnit
  <2>5. 2 ^ FreeInIt(SpecialV6[6], 16) = 512
    BY <2>2, Powers
  <2>6. ASSUME NEW u \in [1..8 -> Int], Within(SpecialV6[6], u, 16) PROVE 64512 <= u[1] /\ u[1] <= 65023
    <3>1. u[1] \in Int
      OBVIOUS
    <3>2. /\ \A i \in 1..(1 - 1) : u[i] = NetworkUnit(SpecialV6[6], i)
          /\ NetworkUnit(SpecialV6[6], 1) <= u[1]
          /\ u[1] <= NetworkUnit(SpecialV6[6], 1) + 512 - 1
      BY <2>2, <2>5, <2>6, Unfolded
    <3> QED
      BY <2>4, <3>1, <3>2, SMT
  <2> QED
    BY <2>3, <2>6
<1>7. /\ Listed(SpecialV6[7], 8, 16, 65535)
      /\ \A u \in [1..8 -> Int] : Within(SpecialV6[7], u, 16) => 65152 <= u[1] /\ u[1] <= 65215
  <2>1. SpecialV6[7].network = <<65152>> /\ SpecialV6[7].prefix = 10
    BY DEF SpecialV6, Row
  <2>2. LastUnit(SpecialV6[7], 16) = 1 /\ FreeInIt(SpecialV6[7], 16) = 6
    BY <2>1 DEF LastUnit, FreeInIt
  <2>3. Listed(SpecialV6[7], 8, 16, 65535)
    BY <2>1, <2>2, Powers DEF Listed, FreeOfTables
  <2>4. NetworkUnit(SpecialV6[7], 1) = 65152
    BY <2>1 DEF NetworkUnit
  <2>5. 2 ^ FreeInIt(SpecialV6[7], 16) = 64
    BY <2>2, Powers
  <2>6. ASSUME NEW u \in [1..8 -> Int], Within(SpecialV6[7], u, 16) PROVE 65152 <= u[1] /\ u[1] <= 65215
    <3>1. u[1] \in Int
      OBVIOUS
    <3>2. /\ \A i \in 1..(1 - 1) : u[i] = NetworkUnit(SpecialV6[7], i)
          /\ NetworkUnit(SpecialV6[7], 1) <= u[1]
          /\ u[1] <= NetworkUnit(SpecialV6[7], 1) + 64 - 1
      BY <2>2, <2>5, <2>6, Unfolded
    <3> QED
      BY <2>4, <3>1, <3>2, SMT
  <2> QED
    BY <2>3, <2>6
<1>8. /\ Listed(SpecialV6[8], 8, 16, 65535)
      /\ \A u \in [1..8 -> Int] : Within(SpecialV6[8], u, 16) => 65280 <= u[1] /\ u[1] <= 65535
  <2>1. SpecialV6[8].network = <<65280>> /\ SpecialV6[8].prefix = 8
    BY DEF SpecialV6, Row
  <2>2. LastUnit(SpecialV6[8], 16) = 1 /\ FreeInIt(SpecialV6[8], 16) = 8
    BY <2>1 DEF LastUnit, FreeInIt
  <2>3. Listed(SpecialV6[8], 8, 16, 65535)
    BY <2>1, <2>2, Powers DEF Listed, FreeOfTables
  <2>4. NetworkUnit(SpecialV6[8], 1) = 65280
    BY <2>1 DEF NetworkUnit
  <2>5. 2 ^ FreeInIt(SpecialV6[8], 16) = 256
    BY <2>2, Powers
  <2>6. ASSUME NEW u \in [1..8 -> Int], Within(SpecialV6[8], u, 16) PROVE 65280 <= u[1] /\ u[1] <= 65535
    <3>1. u[1] \in Int
      OBVIOUS
    <3>2. /\ \A i \in 1..(1 - 1) : u[i] = NetworkUnit(SpecialV6[8], i)
          /\ NetworkUnit(SpecialV6[8], 1) <= u[1]
          /\ u[1] <= NetworkUnit(SpecialV6[8], 1) + 256 - 1
      BY <2>2, <2>5, <2>6, Unfolded
    <3> QED
      BY <2>4, <3>1, <3>2, SMT
  <2> QED
    BY <2>3, <2>6
<1>9. \A j \in 1..8 : Listed(SpecialV6[j], 8, 16, 65535)
  BY <1>1, <1>2, <1>3, <1>4, <1>5, <1>6, <1>7, <1>8, SMT
<1>10. ASSUME NEW u \in [1..8 -> Int]
      PROVE  \A i, j \in 1..8 :
               ~ (i < j /\ Within(SpecialV6[i], u, 16) /\ Within(SpecialV6[j], u, 16))
  <2>1. /\ Within(SpecialV6[1], u, 16) => u[1] = 0 /\ u[8] = 1
        /\ Within(SpecialV6[2], u, 16) => u[1] = 0 /\ u[8] = 0
        /\ Within(SpecialV6[3], u, 16) => u[1] = 100
        /\ Within(SpecialV6[4], u, 16) => u[1] = 256
        /\ Within(SpecialV6[5], u, 16) => u[1] = 8193
        /\ Within(SpecialV6[6], u, 16) => 64512 <= u[1] /\ u[1] <= 65023
        /\ Within(SpecialV6[7], u, 16) => 65152 <= u[1] /\ u[1] <= 65215
        /\ Within(SpecialV6[8], u, 16) => 65280 <= u[1] /\ u[1] <= 65535
    BY <1>1, <1>2, <1>3, <1>4, <1>5, <1>6, <1>7, <1>8
  <2>2. u[1] \in Int /\ u[8] \in Int
    OBVIOUS
  <2> DEFINE P(j) == Within(SpecialV6[j], u, 16)
             x == u[1]
             y == u[8]
  <2>3. \A i, j \in 1..8 : i < j /\ P(i) /\ P(j) => FALSE
    <3>1. /\ P(1) => x = 0 /\ y = 1
          /\ P(2) => x = 0 /\ y = 0
          /\ P(3) => x = 100
          /\ P(4) => x = 256
          /\ P(5) => x = 8193
          /\ P(6) => 64512 <= x /\ x <= 65023
          /\ P(7) => 65152 <= x /\ x <= 65215
          /\ P(8) => 65280 <= x /\ x <= 65535
      BY <2>1
    <3>2. x \in Int /\ y \in Int
      BY <2>2
    <3> HIDE DEF P, x, y
    <3> SUFFICES ASSUME NEW i \in 1..8, NEW j \in 1..8, i < j, P(i), P(j) PROVE FALSE
      OBVIOUS
    <3>3. i \in {1, 2, 3, 4, 5, 6, 7, 8} /\ j \in {1, 2, 3, 4, 5, 6, 7, 8}
      OBVIOUS
    <3> QED
      BY <3>1, <3>2, <3>3, SMT
  <2> QED
    BY <2>3
<1> QED
  BY <1>0, <1>9, <1>10


(* The scope of the first row that holds u, in the order of the table.     *)
FirstScope(T, u) ==
  LET matching == {i \in DOMAIN T : Holds(T[i], u)}
  IN  IF matching = {} THEN "global-unicast" ELSE T[Min(matching)].scope

(* What NarrowestScopeWins says of one address.                            *)
IsNarrowest(scope, T, u) ==
  LET rows == {row \in ToSet(T) : BeginsLike(u, row)}
  IN  \/ rows = {} /\ scope = "global-unicast"
      \/ \E row \in rows :
           /\ scope = row.scope
           /\ \A r \in rows : r.scope = "broadcast" \/ r.prefix <= row.prefix

(* The scope of the first range that holds an address, when no two do but  *)
(* for one behind it that is the limited broadcast's.                      *)
LEMMA FirstOfAll ==
  ASSUME NEW T, NEW K \in Nat, DOMAIN T = 1..K, NEW u,
         \A j \in 1..K : T[j].prefix \in Int,
         \A j \in 1..K : Holds(T[j], u) <=> BeginsLike(u, T[j]),
         \A i, j \in 1..K : i < j /\ Holds(T[i], u) /\ Holds(T[j], u) => T[j].scope = "broadcast"
  PROVE  IsNarrowest(FirstScope(T, u), T, u)
<1> DEFINE matching == {i \in DOMAIN T : Holds(T[i], u)}
           rows == {row \in ToSet(T) : BeginsLike(u, row)}
<1>1. ASSUME NEW r \in rows PROVE \E j \in matching : r = T[j]
  BY DEF ToSet
<1>2. ASSUME NEW j \in matching PROVE T[j] \in rows
  BY DEF ToSet
<1>3. CASE matching = {}
  BY <1>1, <1>3 DEF FirstScope, IsNarrowest
<1>4. CASE matching # {}
  <2>1. PICK m \in matching : \A j \in matching : m <= j
    <3> matching \in SUBSET Nat
      OBVIOUS
    <3> HIDE DEF matching
    <3> QED
      BY <1>4, LeastNatural
  <2>2. Min(matching) = m
    <3>1. \A j \in matching : j \in Int
      OBVIOUS
    <3> HIDE DEF matching
    <3>2. /\ Min(matching) \in matching
          /\ \A j \in matching : Min(matching) <= j
      BY <2>1 DEF Min
    <3> QED
      BY <2>1, <3>1, <3>2
  <2>3. ASSUME NEW r \in rows PROVE r.scope = "broadcast" \/ r.prefix <= T[m].prefix
    <3>1. PICK j \in matching : r = T[j]
      BY <1>1
    <3>2. m <= j /\ m \in 1..K /\ j \in 1..K /\ Holds(T[m], u) /\ Holds(T[j], u)
      BY <2>1
    <3>3. m = j => r.prefix <= T[m].prefix
      BY <3>1, <3>2
    <3> QED
      BY <3>1, <3>2, <3>3
  <2>4. T[m] \in rows
    BY <1>2
  <2>5. \E row \in rows :
          /\ T[Min(matching)].scope = row.scope
          /\ \A r \in rows : r.scope = "broadcast" \/ r.prefix <= row.prefix
    <3> HIDE DEF matching, rows
    <3> QED
      BY <2>2, <2>3, <2>4
  <2> QED
    BY <1>4, <2>5 DEF FirstScope, IsNarrowest
<1> QED
  BY <1>3, <1>4


(* The two families: the units of their addresses, and their tables. *)
IsFamily(units, w, top, T, K) ==
  \/ units = 4 /\ w = 8 /\ top = MaxByte /\ T = SpecialV4 /\ K = 14
  \/ units = 8 /\ w = 16 /\ top = MaxGroup /\ T = SpecialV6 /\ K = 8

LEMMA TableDomains == DOMAIN SpecialV4 = 1..14 /\ DOMAIN SpecialV6 = 1..8
<1>1. DOMAIN SpecialV4 = 1..14
  BY SMT DEF SpecialV4
<1>2. DOMAIN SpecialV6 = 1..8
  BY SMT DEF SpecialV6
<1> QED
  BY <1>1, <1>2

(* In a family whose overlapping rows are in order of their width, the     *)
(* first row that holds an address is the narrowest.                       *)
LEMMA Scoped ==
  ASSUME NEW u, NEW units, NEW w, NEW top, NEW T, NEW K, IsFamily(units, w, top, T, K),
         u \in [1..units -> 0..top]
  PROVE  IsNarrowest(FirstScope(T, u), T, u)
<1>1. DOMAIN T = 1..K /\ K \in Nat
  <2>1. CASE T = SpecialV4 /\ K = 14
    BY <2>1, TableDomains
  <2>2. CASE T = SpecialV6 /\ K = 8
    BY <2>2, TableDomains
  <2> QED
    BY <2>1, <2>2 DEF IsFamily
<1>2. IsVersion(units, w, top) /\ \A j \in 1..K : Listed(T[j], units, w, top)
  BY TableV4, TableV6 DEF IsFamily, IsVersion, MaxByte, MaxGroup
<1>3. ASSUME NEW j \in 1..K
      PROVE  /\ T[j].prefix \in Int
             /\ Holds(T[j], u) <=> BeginsLike(u, T[j])
             /\ Holds(T[j], u) => Within(T[j], u, w)
  <2>1. Listed(T[j], units, w, top)
    BY <1>2
  <2>2. T[j].prefix \in Int
    BY <2>1 DEF Listed
  <2> QED
    BY <1>2, <2>1, <2>2, HoldsIfAlike
<1>4. u \in [1..units -> Int] /\ units \in {4, 8}
  BY <1>2 DEF IsVersion
<1>5. ASSUME NEW i \in 1..K, NEW j \in 1..K, i < j, Holds(T[i], u), Holds(T[j], u)
      PROVE  T[j].scope = "broadcast"
  <2>1. Within(T[i], u, w) /\ Within(T[j], u, w)
    BY <1>3, <1>5
  <2>2. CASE units = 4 /\ w = 8 /\ T = SpecialV4 /\ K = 14
    <3>1. j = 14
      BY <1>4, <1>5, <2>1, <2>2, TableV4
    <3> QED
      BY <2>2, <3>1 DEF SpecialV4, Row
  <2>3. CASE units = 8 /\ w = 16 /\ T = SpecialV6 /\ K = 8
    BY <1>4, <1>5, <2>1, <2>3, TableV6
  <2> QED
    BY <2>2, <2>3 DEF IsFamily
<1> QED
  BY <1>1, <1>3, <1>5, FirstOfAll

LEMMA TopsAreNaturals == MaxByte \in Nat /\ MaxGroup \in Nat
BY DEF MaxByte, MaxGroup

(* ClassifyIp gives every address the scope of its narrowest row.          *)
LEMMA Classified ==
  ASSUME NEW u \in [1..4 -> 0..MaxByte] \cup [1..8 -> 0..MaxGroup], result' = ClassifyIp(u)
  PROVE  NarrowestScopeWins'
<1>1. PICK units, w, top, T, K :
        IsFamily(units, w, top, T, K) /\ u \in [1..units -> 0..top] /\ Table(u) = T
  <2>1. MaxByte \in Nat /\ MaxGroup \in Nat
    BY TopsAreNaturals
  <2>2. CASE u \in [1..4 -> 0..MaxByte]
    <3>1. Table(u) = SpecialV4
      BY <2>1, <2>2, UnitsOf
    <3>2. IsFamily(4, 8, MaxByte, SpecialV4, 14)
      BY DEF IsFamily
    <3> QED
      BY <2>2, <3>1, <3>2
  <2>3. CASE u \in [1..8 -> 0..MaxGroup]
    <3>1. Table(u) = SpecialV6
      BY <2>1, <2>3, UnitsOf
    <3>2. IsFamily(8, 16, MaxGroup, SpecialV6, 8)
      BY DEF IsFamily
    <3> QED
      BY <2>3, <3>1, <3>2
  <2> QED
    BY <2>2, <2>3
<1>2. result'.units = u /\ result'.scope = FirstScope(T, u)
  BY <1>1 DEF ClassifyIp, FirstScope
<1>3. IsNarrowest(FirstScope(T, u), T, u)
  BY <1>1, Scoped
<1> QED
  BY <1>1, <1>2, <1>3 DEF NarrowestScopeWins, IsNarrowest

(* An address has the scope of the narrowest row of the table that it      *)
(* begins like, whichever of the 2^32 or 2^128 it is (cidr.ts:174).        *)
THEOREM ScopeIsNarrowest == PureSpec => []NarrowestScopeWins
<1>1. PureInit => NarrowestScopeWins
  BY DEF PureInit, AddressInit, NarrowestScopeWins, Refused
<1>2. NarrowestScopeWins /\ [PureNext]_pureVars => NarrowestScopeWins'
  <2> SUFFICES ASSUME NarrowestScopeWins, [PureNext]_pureVars PROVE NarrowestScopeWins'
    OBVIOUS
  <2>1. CASE UNCHANGED addressVars
    BY <2>1 DEF NarrowestScopeWins, Refused, addressVars
  <2>2. ASSUME NEW text \in Texts, Normalize(text) PROVE NarrowestScopeWins'
    <3>1. result' = NoAddress \/ ~ "scope" \in DOMAIN result'
      BY <2>2 DEF Normalize, NormalizeIp
    <3> QED
      BY <3>1 DEF NarrowestScopeWins, Refused
  <2>3. ASSUME NEW units \in Hosts4 \cup Hosts6, Classify(units) PROVE NarrowestScopeWins'
    <3>1. units \in [1..4 -> 0..MaxByte] \cup [1..8 -> 0..MaxGroup]
      BY AddressAssumption DEF AddressAssumption
    <3>2. result' = ClassifyIp(units)
      BY <2>3 DEF Classify
    <3> QED
      BY <3>1, <3>2, Classified
  <2> QED
    BY <2>1, <2>2, <2>3 DEF PureNext, pureVars, AddressNext
<1> QED
  BY <1>1, <1>2, PTL DEF PureSpec

-----------------------------------------------------------------------------
(* Recursion *)

(* A function that is defined by a first value and a step from each value  *)
(* to the next exists.                                                     *)
Recursive(S, base, N, step) == base \in S /\ N \in Nat /\ step \in [(1..N) \X S -> S]

LEMMA RecursionExists ==
  ASSUME NEW S, NEW base, NEW N, NEW step, Recursive(S, base, N, step)
  PROVE  \E g \in [0..N -> S] : g[0] = base /\ \A i \in 1..N : g[i] = step[<<i, g[i - 1]>>]
<1> USE DEF Recursive
<1> DEFINE Upto(k) == \E g \in [0..k -> S] : g[0] = base /\ \A i \in 1..k : g[i] = step[<<i, g[i - 1]>>]
           Bad == {k \in 0..N : ~ Upto(k)}
<1> SUFFICES ASSUME Bad # {} PROVE FALSE
  <2>1. N \in 0..N
    OBVIOUS
  <2>2. N \notin Bad => Upto(N)
    BY <2>1
  <2> QED
    BY <2>2
<1>1. PICK k \in Bad : \A j \in Bad : k <= j
  <2> Bad \in SUBSET Nat
    OBVIOUS
  <2> HIDE DEF Bad
  <2> QED
    BY LeastNatural
<1>2. k # 0
  <2> SUFFICES Upto(0)
    OBVIOUS
  <2> DEFINE g == [i \in 0..0 |-> base]
  <2>1. g \in [0..0 -> S] /\ g[0] = base /\ \A i \in 1..0 : g[i] = step[<<i, g[i - 1]>>]
    OBVIOUS
  <2> QED
    BY <2>1
<1>3. k \in 1..N /\ k - 1 \in 0..N
  BY <1>2
<1>4. Upto(k - 1)
  BY <1>1, <1>3
<1>5. PICK g \in [0..(k - 1) -> S] :
        g[0] = base /\ \A i \in 1..(k - 1) : g[i] = step[<<i, g[i - 1]>>]
  BY <1>4
<1>6. g[k - 1] \in S
  BY <1>3
<1>7. step[<<k, g[k - 1]>>] \in S
  BY <1>3, <1>6
<1> DEFINE h == [i \in 0..k |-> IF i = k THEN step[<<k, g[k - 1]>>] ELSE g[i]]
<1>8. h \in [0..k -> S]
  BY <1>3, <1>7
<1>9. h[0] = base
  BY <1>3, <1>5
<1>10. ASSUME NEW i \in 1..k PROVE h[i] = step[<<i, h[i - 1]>>]
  <2>1. CASE i = k
    BY <1>3, <2>1
  <2>2. CASE i # k
    <3>1. i \in 1..(k - 1) /\ i - 1 \in 0..(k - 1) /\ i - 1 # k /\ i \in 0..k /\ i - 1 \in 0..k
      BY <1>3, <2>2
    <3>2. h[i] = g[i] /\ h[i - 1] = g[i - 1]
      BY <2>2, <3>1
    <3>3. g[i] = step[<<i, g[i - 1]>>]
      BY <1>5, <3>1
    <3> QED
      BY <3>2, <3>3
  <2> QED
    BY <2>1, <2>2
<1>11. Upto(k)
  <2> HIDE DEF h
  <2> QED
    BY <1>8, <1>9, <1>10
<1> QED
  BY <1>1, <1>11

(* numerals *)
LEMMA NumeralIs ==
  ASSUME NEW digits \in Seq(0..9)
  PROVE  /\ Len(digits) = 1 => Numeral(digits) = digits[1]
         /\ Len(digits) = 2 => Numeral(digits) = 10 * digits[1] + digits[2]
         /\ Len(digits) = 3 => Numeral(digits) = 100 * digits[1] + 10 * digits[2] + digits[3]
<1> DEFINE K == Len(digits)
           Body(N) == [i \in 0..Len(digits) |-> IF i = 0 THEN 0 ELSE 10 * N[i - 1] + digits[i]]
           F == CHOOSE N : N = Body(N)
           step == [p \in (1..K) \X Nat |-> 10 * p[2] + digits[p[1]]]
<1>1. K \in Nat /\ digits \in [1..K -> 0..9]
  OBVIOUS
<1>2. step \in [(1..K) \X Nat -> Nat]
  <2> SUFFICES ASSUME NEW p \in (1..K) \X Nat PROVE 10 * p[2] + digits[p[1]] \in Nat
    OBVIOUS
  <2>1. p[1] \in 1..K /\ p[2] \in Nat
    OBVIOUS
  <2>2. digits[p[1]] \in 0..9
    BY <1>1, <2>1
  <2> QED
    BY <2>1, <2>2
<1>3. PICK g \in [0..K -> Nat] : g[0] = 0 /\ \A i \in 1..K : g[i] = step[<<i, g[i - 1]>>]
  <2>1. Recursive(Nat, 0, K, step)
    BY <1>1, <1>2 DEF Recursive
  <2> HIDE DEF K, step
  <2> QED
    BY <2>1, RecursionExists
<1>4. g = Body(g)
  <2>1. \A i \in 1..K : g[i] = 10 * g[i - 1] + digits[i]
    <3> SUFFICES ASSUME NEW i \in 1..K PROVE g[i] = 10 * g[i - 1] + digits[i]
      OBVIOUS
    <3>1. g[i - 1] \in Nat
      BY <1>1, <1>3
    <3>2. <<i, g[i - 1]>> \in (1..K) \X Nat
      BY <3>1
    <3> QED
      BY <1>3, <3>2
  <2>2. \A i \in 0..K : g[i] = IF i = 0 THEN 0 ELSE 10 * g[i - 1] + digits[i]
    <3> SUFFICES ASSUME NEW i \in 0..K
                 PROVE  g[i] = IF i = 0 THEN 0 ELSE 10 * g[i - 1] + digits[i]
      OBVIOUS
    <3>1. i # 0 => i \in 1..K
      BY <1>1
    <3> QED
      BY <1>3, <2>1, <3>1
  <2>3. g = [i \in 0..K |-> g[i]]
    BY <1>3
  <2> HIDE DEF step
  <2> QED
    BY <2>2, <2>3
<1>5. F = Body(F)
  BY <1>4
<1>6. Numeral(digits) = F[K]
  BY DEF Numeral
<1> HIDE DEF F
<1>7. \A i \in 0..K : F[i] = IF i = 0 THEN 0 ELSE 10 * F[i - 1] + digits[i]
  BY <1>5
<1> HIDE DEF Body, step
<1>8. ASSUME K >= 1 PROVE F[1] = digits[1]
  <2>1. 0 \in 0..K /\ 1 \in 0..K /\ digits[1] \in Int
    BY <1>1, <1>8
  <2> QED
    BY <1>7, <2>1
<1>9. ASSUME K >= 2 PROVE F[2] = 10 * digits[1] + digits[2]
  <2>1. 2 \in 0..K
    BY <1>1, <1>9
  <2> QED
    BY <1>1, <1>7, <1>8, <1>9, <2>1
<1>10. ASSUME K >= 3 PROVE F[3] = 100 * digits[1] + 10 * digits[2] + digits[3]
  <2>1. 3 \in 0..K /\ digits[1] \in Int /\ digits[2] \in Int
    BY <1>1, <1>10
  <2>2. F[3] = 10 * F[2] + digits[3]
    BY <1>7, <2>1
  <2> QED
    BY <1>1, <1>9, <1>10, <2>1, <2>2
<1> QED
  BY <1>6, <1>8, <1>9, <1>10

-----------------------------------------------------------------------------
(* The longest run of zeros. *)

(* Groups x to y are zero.                                                 *)
IsZero(groups, x, y) == \A j \in x..y : groups[j] = 0

(* After i groups: the zeros they end in, and the first longest run in     *)
(* them, from s on and of length b.                                        *)
EndsIn(groups, i, c, current) ==
  /\ c \in 0..i /\ current = [j \in 1..c |-> (i - c) + j]
  /\ IsZero(groups, i - c + 1, i)
  /\ c = i \/ groups[i - c] # 0

(* Among groups 1 to i, best is the first run of zeros that none exceeds:  *)
(* the b groups from s on.                                                 *)
FirstLongest(groups, i, s, b, best) ==
  /\ s \in 1..9 /\ b \in 0..8 /\ s + b - 1 <= i
  /\ best = [j \in 1..b |-> (s - 1) + j]
  /\ IsZero(groups, s, s + b - 1)
  /\ \A x, y \in 1..8 : x <= y /\ y <= i /\ IsZero(groups, x, y) =>
       y - x + 1 < b \/ (y - x + 1 = b /\ s <= x)

(* One step of the pass of formatIPv6 over the groups.                     *)
NextCurrent(groups, i, current) == IF groups[i] = 0 THEN Append(current, i) ELSE <<>>
NextBest(current, best) == IF Longer(current, best) THEN current ELSE best

(* A run of indexes, and the run with one more.                            *)
LEMMA IntervalSeq ==
  ASSUME NEW a \in Nat, NEW k \in Nat
  PROVE  LET s == [j \in 1..k |-> a + j]
         IN  /\ s \in Seq(Nat) /\ Len(s) = k
             /\ Append(s, a + k + 1) = [j \in 1..(k + 1) |-> a + j]
<1> DEFINE s == [j \in 1..k |-> a + j]
           t == [j \in 1..(k + 1) |-> a + j]
<1>1. s \in Seq(Nat) /\ Len(s) = k
  OBVIOUS
<1>2. t \in Seq(Nat) /\ Len(t) = k + 1
  OBVIOUS
<1> HIDE DEF s
<1>3. Append(s, a + k + 1) \in Seq(Nat) /\ Len(Append(s, a + k + 1)) = k + 1
  BY <1>1
<1>4. ASSUME NEW j \in 1..(k + 1) PROVE Append(s, a + k + 1)[j] = t[j]
  <2>1. CASE j = k + 1
    BY <1>1, <2>1
  <2>2. CASE j # k + 1
    <3>1. j \in 1..k
      BY <2>2
    <3>2. Append(s, a + k + 1)[j] = s[j]
      BY <1>1, <3>1
    <3> QED
      BY <3>1, <3>2 DEF s
  <2> QED
    BY <2>1, <2>2
<1>5. Append(s, a + k + 1) = t
  BY <1>2, <1>3, <1>4
<1> QED
  BY <1>1, <1>5 DEF s

(* A step keeps the run that ends at the group it is at.                   *)
LEMMA NextCurrentOK ==
  ASSUME NEW groups, NEW i \in 1..8, NEW c, NEW current, EndsIn(groups, i - 1, c, current)
  PROVE  \E d : EndsIn(groups, i, d, NextCurrent(groups, i, current))
<1>1. /\ c \in 0..(i - 1) /\ current = [j \in 1..c |-> (i - 1 - c) + j]
      /\ IsZero(groups, i - 1 - c + 1, i - 1)
      /\ c = i - 1 \/ groups[i - 1 - c] # 0
  BY DEF EndsIn
<1>2. CASE groups[i] = 0
  <2>1. Append(current, i) = [j \in 1..(c + 1) |-> (i - (c + 1)) + j]
    <3> DEFINE a == i - 1 - c
    <3>1. a \in Nat /\ c \in Nat /\ i = a + c + 1 /\ i - (c + 1) = a
      BY <1>1
    <3>2. current = [j \in 1..c |-> a + j]
      BY <1>1
    <3> HIDE DEF a
    <3> QED
      BY <3>1, <3>2, IntervalSeq
  <2>2. IsZero(groups, i - (c + 1) + 1, i)
    BY <1>1, <1>2 DEF IsZero
  <2>3. c + 1 \in 0..i /\ (c + 1 = i \/ groups[i - (c + 1)] # 0)
    <3>1. i - (c + 1) = i - 1 - c
      BY <1>1
    <3> QED
      BY <1>1, <3>1
  <2>4. EndsIn(groups, i, c + 1, Append(current, i))
    BY <2>1, <2>2, <2>3 DEF EndsIn
  <2> QED
    BY <1>2, <2>4 DEF NextCurrent
<1>3. CASE groups[i] # 0
  <2>1. EndsIn(groups, i, 0, <<>>)
    BY <1>3 DEF EndsIn, IsZero
  <2> QED
    BY <1>3, <2>1 DEF NextCurrent
<1> QED
  BY <1>2, <1>3

(* A step keeps the first longest run.                                     *)
LEMMA NextBestOK ==
  ASSUME NEW groups, NEW i \in 1..8, NEW s, NEW b, NEW best, NEW c, NEW current,
         FirstLongest(groups, i - 1, s, b, best), EndsIn(groups, i, c, current)
  PROVE  \E t, d : FirstLongest(groups, i, t, d, NextBest(current, best))
<1>1. /\ s \in 1..9 /\ b \in 0..8 /\ s + b - 1 <= i - 1
      /\ best = [j \in 1..b |-> (s - 1) + j]
      /\ IsZero(groups, s, s + b - 1)
      /\ \A x, y \in 1..8 : x <= y /\ y <= i - 1 /\ IsZero(groups, x, y) =>
           y - x + 1 < b \/ (y - x + 1 = b /\ s <= x)
  BY DEF FirstLongest
<1>2. /\ c \in 0..i /\ current = [j \in 1..c |-> (i - c) + j]
      /\ IsZero(groups, i - c + 1, i)
      /\ c = i \/ groups[i - c] # 0
  BY DEF EndsIn
<1>3. Len(current) = c /\ Len(best) = b
  <2>1. i - c \in Nat /\ s - 1 \in Nat /\ c \in Nat /\ b \in Nat
    BY <1>1, <1>2
  <2> QED
    BY <1>1, <1>2, <2>1, IntervalSeq
<1>4. ASSUME NEW x \in 1..8, x <= i, IsZero(groups, x, i)
      PROVE  i - x + 1 <= c
  <2> SUFFICES ASSUME i - x + 1 > c PROVE FALSE
    BY <1>2
  <2>1. c # i /\ i - c \in x..i
    BY <1>2
  <2> QED
    BY <1>2, <1>4, <2>1 DEF IsZero
<1>5. CASE c > b
  <2>1. NextBest(current, best) = current
    BY <1>3, <1>5 DEF NextBest, Longer
  <2>2. i - c + 1 \in 1..9 /\ c \in 0..8 /\ (i - c + 1) + c - 1 = i /\ (i - c + 1) - 1 = i - c
    BY <1>1, <1>2, <1>5
  <2>3. ASSUME NEW x \in 1..8, NEW y \in 1..8, x <= y, y <= i, IsZero(groups, x, y)
        PROVE  y - x + 1 < c \/ (y - x + 1 = c /\ i - c + 1 <= x)
    <3>1. CASE y = i
      <4>1. i - x + 1 <= c
        BY <1>4, <2>3, <3>1
      <4> QED
        BY <1>2, <3>1, <4>1
    <3>2. CASE y # i
      <4>1. y <= i - 1
        BY <2>3, <3>2
      <4>2. y - x + 1 <= b
        BY <1>1, <2>3, <4>1, SMTT(30)
      <4> QED
        BY <1>1, <1>2, <1>5, <4>2
    <3> QED
      BY <3>1, <3>2
  <2>4. FirstLongest(groups, i, i - c + 1, c, current)
    BY <1>2, <2>2, <2>3 DEF FirstLongest
  <2> QED
    BY <2>1, <2>4
<1>6. CASE c <= b
  <2>1. NextBest(current, best) = best
    BY <1>1, <1>2, <1>3, <1>6 DEF NextBest, Longer
  <2>2. ASSUME NEW x \in 1..8, NEW y \in 1..8, x <= y, y <= i, IsZero(groups, x, y)
        PROVE  y - x + 1 < b \/ (y - x + 1 = b /\ s <= x)
    <3>1. CASE y = i
      <4>1. i - x + 1 <= c
        BY <1>4, <2>2, <3>1
      <4> QED
        BY <1>1, <1>2, <1>6, <3>1, <4>1
    <3>2. CASE y # i
      <4>1. y <= i - 1
        BY <2>2, <3>2
      <4> QED
        BY <1>1, <2>2, <4>1
    <3> QED
      BY <3>1, <3>2
  <2>3. s + b - 1 <= i
    BY <1>1
  <2>4. FirstLongest(groups, i, s, b, best)
    BY <1>1, <2>2, <2>3 DEF FirstLongest
  <2> QED
    BY <2>1, <2>4
<1>7. c > b \/ c <= b
  BY <1>1, <1>2
<1> QED
  BY <1>5, <1>6, <1>7


(* BestRun is the last of the values of the pass.                          *)
LEMMA RunsAre ==
  ASSUME NEW groups
  PROVE  \E F : /\ F[0] = [current |-> <<>>, best |-> <<>>]
                /\ \A i \in 1..8 :
                     F[i] = [current |-> NextCurrent(groups, i, F[i - 1].current),
                             best |-> NextBest(NextCurrent(groups, i, F[i - 1].current), F[i - 1].best)]
                /\ BestRun(groups) = F[8].best
<1> DEFINE none == [current |-> <<>>, best |-> <<>>]
           Next1(i, runs) ==
             [current |-> NextCurrent(groups, i, runs.current),
              best |-> NextBest(NextCurrent(groups, i, runs.current), runs.best)]
           Body(Runs) ==
             [i \in 0..8 |->
                IF i = 0 THEN [current |-> <<>>, best |-> <<>>]
                ELSE LET runs == Runs[i - 1]
                         current == IF groups[i] = 0 THEN Append(runs.current, i) ELSE <<>>
                     IN  [current |-> current,
                          best |-> IF Longer(current, runs.best) THEN current ELSE runs.best]]
           F == CHOOSE Runs : Runs = Body(Runs)
           S == [current : Seq(1..8), best : Seq(1..8)]
           top == 8
           step == [p \in (1..top) \X S |-> Next1(p[1], p[2])]
<1>1. ASSUME NEW Runs
      PROVE  Body(Runs) = [i \in 0..8 |-> IF i = 0 THEN none ELSE Next1(i, Runs[i - 1])]
  BY DEF NextCurrent, NextBest
<1>2. ASSUME NEW i \in 1..8, NEW runs \in S PROVE Next1(i, runs) \in S
  <2>1. runs.current \in Seq(1..8) /\ runs.best \in Seq(1..8)
    OBVIOUS
  <2>2. NextCurrent(groups, i, runs.current) \in Seq(1..8)
    BY <2>1 DEF NextCurrent
  <2>3. NextBest(NextCurrent(groups, i, runs.current), runs.best) \in Seq(1..8)
    BY <2>1, <2>2 DEF NextBest
  <2> QED
    BY <2>2, <2>3
<1> HIDE DEF Body
<1>3. Recursive(S, none, top, step)
  <2>1. none \in S
    OBVIOUS
  <2>2. step \in [(1..top) \X S -> S]
    <3> SUFFICES ASSUME NEW p \in (1..top) \X S PROVE Next1(p[1], p[2]) \in S
      OBVIOUS
    <3>1. p[1] \in 1..8 /\ p[2] \in S
      OBVIOUS
    <3> HIDE DEF Next1, S
    <3> QED
      BY <1>2, <3>1
  <2> QED
    BY <2>1, <2>2 DEF Recursive
<1>4. PICK g \in [0..top -> S] : g[0] = none /\ \A i \in 1..top : g[i] = step[<<i, g[i - 1]>>]
  <2> HIDE DEF S, none, step, top
  <2> QED
    BY <1>3, RecursionExists
<1>5. \A i \in 1..8 : g[i] = Next1(i, g[i - 1])
  <2> SUFFICES ASSUME NEW i \in 1..8 PROVE g[i] = Next1(i, g[i - 1])
    OBVIOUS
  <2> HIDE DEF S, Next1
  <2>1. <<i, g[i - 1]>> \in (1..top) \X S
    <3>1. i - 1 \in 0..top
      OBVIOUS
    <3> QED
      BY <1>4, <3>1
  <2> QED
    BY <1>4, <2>1
<1> HIDE DEF none, Next1, S
<1>6. g = Body(g)
  <2>1. \A i \in 0..8 : g[i] = IF i = 0 THEN none ELSE Next1(i, g[i - 1])
    <3> SUFFICES ASSUME NEW i \in 0..8 PROVE g[i] = IF i = 0 THEN none ELSE Next1(i, g[i - 1])
      OBVIOUS
    <3>1. i # 0 => i \in 1..8
      OBVIOUS
    <3> QED
      BY <1>4, <1>5, <3>1
  <2>2. g = [i \in 0..8 |-> g[i]]
    BY <1>4
  <2> QED
    BY <1>1, <2>1, <2>2
<1>7. F = Body(F)
  BY <1>6
<1>8. BestRun(groups) = F[8].best
  BY DEF BestRun, Body
<1> HIDE DEF F
<1>9. F[0] = none /\ \A i \in 1..8 : F[i] = Next1(i, F[i - 1])
  <2>1. \A i \in 0..8 : F[i] = IF i = 0 THEN none ELSE Next1(i, F[i - 1])
    BY <1>1, <1>7
  <2>2. \A i \in 1..8 : i \in 0..8 /\ i # 0
    OBVIOUS
  <2> QED
    BY <2>1, <2>2
<1> QED
  BY <1>8, <1>9 DEF none, Next1

(* The best run is the first longest one. *)
LEMMA BestRunIs ==
  ASSUME NEW groups
  PROVE  \E s, b : FirstLongest(groups, 8, s, b, BestRun(groups))
<1>1. PICK F : /\ F[0] = [current |-> <<>>, best |-> <<>>]
               /\ \A i \in 1..8 :
                    F[i] = [current |-> NextCurrent(groups, i, F[i - 1].current),
                            best |-> NextBest(NextCurrent(groups, i, F[i - 1].current), F[i - 1].best)]
               /\ BestRun(groups) = F[8].best
  BY RunsAre
<1> DEFINE Sound(i) == /\ \E c : EndsIn(groups, i, c, F[i].current)
                       /\ \E s, b : FirstLongest(groups, i, s, b, F[i].best)
<1>2. Sound(0)
  <2>1. EndsIn(groups, 0, 0, <<>>)
    BY DEF EndsIn, IsZero
  <2>2. FirstLongest(groups, 0, 1, 0, <<>>)
    BY DEF FirstLongest, IsZero
  <2> QED
    BY <1>1, <2>1, <2>2
<1>3. ASSUME NEW i \in 1..8, Sound(i - 1) PROVE Sound(i)
  <2>1. PICK c, s, b : EndsIn(groups, i - 1, c, F[i - 1].current)
                       /\ FirstLongest(groups, i - 1, s, b, F[i - 1].best)
    BY <1>3
  <2>2. /\ F[i].current = NextCurrent(groups, i, F[i - 1].current)
        /\ F[i].best = NextBest(F[i].current, F[i - 1].best)
    BY <1>1
  <2>3. PICK d : EndsIn(groups, i, d, F[i].current)
    BY <2>1, <2>2, NextCurrentOK
  <2>4. \E t, e : FirstLongest(groups, i, t, e, F[i].best)
    BY <2>1, <2>2, <2>3, NextBestOK
  <2> QED
    BY <2>3, <2>4
<1> HIDE DEF Sound
<1>4. Sound(1) /\ Sound(2) /\ Sound(3) /\ Sound(4)
  <2>1. Sound(1)
    BY <1>2, <1>3
  <2>2. Sound(2)
    BY <2>1, <1>3
  <2>3. Sound(3)
    BY <2>2, <1>3
  <2> QED
    BY <2>1, <2>2, <2>3, <1>3
<1>5. Sound(8)
  <2>1. Sound(5)
    BY <1>3, <1>4
  <2>2. Sound(6)
    BY <2>1, <1>3
  <2>3. Sound(7)
    BY <2>2, <1>3
  <2> QED
    BY <2>3, <1>3
<1> QED
  BY <1>1, <1>5 DEF Sound

-----------------------------------------------------------------------------
(* FlattenSeq *)

(* What holds of 0, and of each number if of the one before, holds of all  *)
(* of them: induction, for the members of a set.                           *)
LEMMA Upward ==
  ASSUME NEW N \in Nat, NEW Good, 0 \in Good, \A i \in 1..N : i - 1 \in Good => i \in Good
  PROVE  \A i \in 0..N : i \in Good
<1> DEFINE Bad == {i \in 0..N : i \notin Good}
<1> SUFFICES ASSUME Bad # {} PROVE FALSE
  OBVIOUS
<1>1. PICK k \in Bad : \A j \in Bad : k <= j
  <2> Bad \in SUBSET Nat
    OBVIOUS
  <2> HIDE DEF Bad
  <2> QED
    BY LeastNatural
<1>2. k \in 1..N /\ k - 1 \in 0..N
  OBVIOUS
<1>3. k - 1 \in Good
  BY <1>1, <1>2
<1> QED
  BY <1>1, <1>2, <1>3

(* The pieces of s put together, up to each of them.                       *)
IsFlat(S, s, g) ==
  /\ g \in [0..Len(s) -> Seq(S)] /\ g[0] = <<>>
  /\ \A i \in 1..Len(s) : g[i] = g[i - 1] \o s[i]

(* FlattenSeq puts the pieces together from the first on.                  *)
LEMMA FlattenIs ==
  ASSUME NEW S, NEW s \in Seq(Seq(S))
  PROVE  \E g : IsFlat(S, s, g) /\ FlattenSeq(s) = g[Len(s)]
<1> DEFINE K == Len(s)
           step == [p \in (1..K) \X Seq(S) |-> p[2] \o s[p[1]]]
           Body(F) == [i \in 1..Len(s) |-> IF i = 1 THEN s[i] ELSE F[i - 1] \o s[i]]
           F == CHOOSE f : f = Body(f)
<1>1. K \in Nat /\ \A i \in 1..K : s[i] \in Seq(S)
  OBVIOUS
<1>2. Recursive(Seq(S), <<>>, K, step)
  <2>1. <<>> \in Seq(S)
    OBVIOUS
  <2>2. step \in [(1..K) \X Seq(S) -> Seq(S)]
    <3> SUFFICES ASSUME NEW p \in (1..K) \X Seq(S) PROVE p[2] \o s[p[1]] \in Seq(S)
      OBVIOUS
    <3>1. p[1] \in 1..K /\ p[2] \in Seq(S)
      OBVIOUS
    <3>2. s[p[1]] \in Seq(S)
      BY <1>1, <3>1
    <3> HIDE DEF K
    <3> QED
      BY <3>1, <3>2
  <2> HIDE DEF K, step
  <2> QED
    BY <1>1, <2>1, <2>2 DEF Recursive
<1>3. PICK g \in [0..K -> Seq(S)] : g[0] = <<>> /\ \A i \in 1..K : g[i] = step[<<i, g[i - 1]>>]
  <2> HIDE DEF K, step
  <2> QED
    BY <1>2, RecursionExists
<1>4. \A i \in 1..K : g[i] = g[i - 1] \o s[i]
  <2> SUFFICES ASSUME NEW i \in 1..K PROVE g[i] = g[i - 1] \o s[i]
    OBVIOUS
  <2>1. <<i, g[i - 1]>> \in (1..K) \X Seq(S)
    <3>1. i - 1 \in 0..K
      BY <1>1
    <3> HIDE DEF K
    <3> QED
      BY <1>3, <3>1
  <2> QED
    BY <1>3, <2>1
<1>5. IsFlat(S, s, g)
  BY <1>3, <1>4 DEF IsFlat
<1>f. 1 \in 1..K => g[1] = s[1]
  <2> SUFFICES ASSUME 1 \in 1..K PROVE g[1] = s[1]
    OBVIOUS
  <2>1. s[1] \in Seq(S)
    BY <1>1
  <2>2. <<>> \o s[1] = s[1]
    BY <2>1
  <2>3. g[1] = g[0] \o s[1]
    <3>1. 1 - 1 = 0
      OBVIOUS
    <3> HIDE DEF K
    <3> QED
      BY <1>4, <3>1
  <2>4. g[0] = <<>>
    BY <1>3
  <2> QED
    BY <2>2, <2>3, <2>4
<1> HIDE DEF step
<1>6. CASE K = 0
  <2>1. s = <<>>
    BY <1>6
  <2> QED
    BY <1>3, <1>5, <1>6, <2>1 DEF FlattenSeq
<1>7. CASE K # 0
  <2> DEFINE h == [i \in 1..K |-> g[i]]
  <2>1. h = Body(h)
    <3> SUFFICES ASSUME NEW i \in 1..K
                 PROVE  h[i] = IF i = 1 THEN s[i] ELSE h[i - 1] \o s[i]
      OBVIOUS
    <3>1. CASE i = 1
      BY <1>f, <3>1
    <3>2. CASE i # 1
      <4>1. i - 1 \in 1..K
        BY <1>1, <3>2
      <4> QED
        BY <1>4, <3>2, <4>1
    <3> QED
      BY <3>1, <3>2
  <2>2. F = Body(F)
    BY <2>1
  <2>3. FlattenSeq(s) = F[K]
    BY <1>7 DEF FlattenSeq
  <2> HIDE DEF F
  <2>4. \A i \in 1..K : F[i] = IF i = 1 THEN s[i] ELSE F[i - 1] \o s[i]
    BY <2>2
  <2> DEFINE Good == {i \in Nat : i = 0 \/ F[i] = g[i]}
  <2>5. 0 \in Good
    OBVIOUS
  <2>6. ASSUME NEW i \in 1..K, i - 1 \in Good PROVE i \in Good
    <3>1. CASE i = 1
      <4>1. F[1] = s[1]
        BY <2>4, <3>1
      <4> QED
        BY <1>f, <3>1, <4>1
    <3>2. CASE i # 1
      <4>1. F[i - 1] = g[i - 1]
        BY <2>6, <3>2
      <4>2. F[i] = F[i - 1] \o s[i] /\ g[i] = g[i - 1] \o s[i]
        BY <1>4, <2>4, <3>2
      <4>3. F[i] = g[i]
        BY <4>1, <4>2
      <4> QED
        BY <4>3
    <3> QED
      BY <3>1, <3>2
  <2>7. K \in Good
    <3> HIDE DEF Good, K
    <3>1. \A i \in 0..K : i \in Good
      BY <1>1, <2>5, <2>6, Upward
    <3> QED
      BY <1>1, <3>1
  <2> QED
    BY <1>5, <1>7, <2>3, <2>7
<1> QED
  BY <1>6, <1>7

(* What is cut into single pieces is put together again. *)
LEMMA FlattenSingles ==
  ASSUME NEW S, NEW v \in Seq(S)
  PROVE  FlattenSeq([i \in 1..Len(v) |-> <<v[i]>>]) = v
<1> DEFINE K == Len(v)
           s == [i \in 1..K |-> <<v[i]>>]
<1>1. K \in Nat /\ v \in [1..K -> S]
  OBVIOUS
<1>2. s \in Seq(Seq(S)) /\ Len(s) = K
  <2>1. \A i \in 1..K : <<v[i]>> \in Seq(S)
    BY <1>1
  <2> QED
    BY <1>1, <2>1
<1>3. PICK g : IsFlat(S, s, g) /\ FlattenSeq(s) = g[Len(s)]
  <2> HIDE DEF s
  <2> QED
    BY <1>2, FlattenIs
<1>4. \A i \in 1..K : g[i] = g[i - 1] \o <<v[i]>>
  BY <1>2, <1>3 DEF IsFlat
<1>5. g[0] = <<>> /\ g \in [0..K -> Seq(S)]
  BY <1>2, <1>3 DEF IsFlat
<1> DEFINE Good == {i \in 0..K : Len(g[i]) = i /\ \A j \in 1..i : g[i][j] = v[j]}
<1> HIDE DEF K
<1>6. 0 \in Good
  BY <1>1, <1>5
<1>7. ASSUME NEW i \in 1..K, i - 1 \in Good PROVE i \in Good
  <2>1. /\ g[i - 1] \in Seq(S) /\ Len(g[i - 1]) = i - 1
        /\ \A j \in 1..(i - 1) : g[i - 1][j] = v[j]
    BY <1>1, <1>5, <1>7
  <2>2. v[i] \in S /\ g[i] = Append(g[i - 1], v[i])
    <3>1. v[i] \in S
      BY <1>1
    <3>2. \A q \in Seq(S), e \in S : q \o <<e>> = Append(q, e)
      OBVIOUS
    <3> QED
      BY <1>4, <2>1, <3>1, <3>2
  <2>3. Len(g[i]) = i /\ \A j \in 1..i : g[i][j] = v[j]
    BY <1>1, <2>1, <2>2
  <2> QED
    BY <1>1, <2>3
<1>8. K \in Good
  <2> HIDE DEF Good
  <2>1. \A i \in 0..K : i \in Good
    BY <1>1, <1>6, <1>7, Upward
  <2> QED
    BY <1>1, <2>1
<1>9. g[K] \in Seq(S)
  BY <1>1, <1>5
<1>10. g[K] = v
  BY <1>1, <1>8, <1>9
<1> QED
  BY <1>2, <1>3, <1>10 DEF K

-----------------------------------------------------------------------------
(* Addresses as text *)

LEMMA Tops == MaxByte = 255 /\ MaxGroup = 65535
BY DEF MaxByte, MaxGroup

(* Division by ten and by a hundred. *)
LEMMA Tens ==
  ASSUME NEW num \in Nat
  PROVE  /\ num \div 10 \in Nat /\ num % 10 \in Nat /\ num % 10 <= 9 /\ num = 10 * (num \div 10) + (num % 10)
         /\ num \div 100 = (num \div 10) \div 10
<1>1. num \div 10 \in Nat /\ num % 10 \in Nat /\ num % 10 <= 9
  OBVIOUS
<1>2. num = 10 * (num \div 10) + (num % 10)
  OBVIOUS
<1>3. \A m \in Nat : m \div 10 \in Nat /\ 10 * (m \div 10) <= m /\ m < 10 * (m \div 10) + 10
  OBVIOUS
<1>4. num \div 100 \in Nat /\ 100 * (num \div 100) <= num /\ num < 100 * (num \div 100) + 100
  OBVIOUS
<1>5. num \div 100 = (num \div 10) \div 10
  <2> DEFINE a == num \div 100
             t == num \div 10
             b == t \div 10
  <2>1. t \in Nat /\ 10 * t <= num /\ num < 10 * t + 10
    BY <1>3
  <2>2. b \in Nat /\ 10 * b <= t /\ t < 10 * b + 10
    BY <1>3, <2>1
  <2>3. a \in Nat /\ 100 * a <= num /\ num < 100 * a + 100
    BY <1>4
  <2> HIDE DEF a, t, b
  <2>4. a = b
    BY <2>1, <2>2, <2>3
  <2> QED
    BY <2>4 DEF a, b, t
<1> QED
  BY <1>1, <1>2, <1>5

(* Sequences of two and of three.                                          *)
LEMMA Pair ==
  ASSUME NEW D, NEW a \in D, NEW b \in D
  PROVE  /\ <<a, b>> \in Seq(D) /\ Len(<<a, b>>) = 2
         /\ <<a, b>>[1] = a /\ <<a, b>>[2] = b
OBVIOUS

LEMMA Triple ==
  ASSUME NEW D, NEW a \in D, NEW b \in D, NEW c \in D
  PROVE  /\ <<a, b, c>> \in Seq(D) /\ Len(<<a, b, c>>) = 3
         /\ <<a, b, c>>[1] = a /\ <<a, b, c>>[2] = b /\ <<a, b, c>>[3] = c
OBVIOUS

(* The digits of a byte are a byte again, and denote it.                   *)
LEMMA DigitsOf ==
  ASSUME NEW num, num \in 0..MaxByte
  PROVE  Digits(num) \in Seq(0..9) /\ IsByte(Digits(num)) /\ Numeral(Digits(num)) = num
<1>0. num \in Nat /\ num <= 255
  BY Tops
<1>1. CASE num < 10
  <2>1. Digits(num) = <<num>> /\ <<num>> \in Seq(0..9) /\ Len(<<num>>) = 1
    BY <1>0, <1>1 DEF Digits
  <2>2. Numeral(Digits(num)) = num
    BY <2>1, NumeralIs
  <2> QED
    BY <1>0, <2>1, <2>2 DEF IsByte
<1>2. CASE num >= 10 /\ num < 100
  <2> DEFINE a == num \div 10
             b == num % 10
  <2>1. a \in Nat /\ b \in Nat /\ b <= 9 /\ num = 10 * a + b
    BY <1>0, Tens
  <2>2. Digits(num) = <<a, b>>
    BY <1>0, <1>2 DEF Digits
  <2> HIDE DEF a, b
  <2>3. a \in 0..9 /\ a # 0 /\ b \in 0..9
    BY <1>0, <1>2, <2>1
  <2>4. Digits(num) \in Seq(0..9) /\ Len(Digits(num)) = 2 /\ Digits(num)[1] = a /\ Digits(num)[2] = b
    BY <2>2, <2>3, Pair
  <2>5. Numeral(Digits(num)) = 10 * a + b
    BY <2>4, NumeralIs
  <2>6. Len(Digits(num)) \in 1..3
    BY <2>4
  <2> QED
    BY <1>0, <2>1, <2>3, <2>4, <2>5, <2>6 DEF IsByte
<1>3. CASE num >= 100
  <2> DEFINE a == num \div 100
             t == num \div 10
             b == t % 10
             c == num % 10
  <2>1. t \in Nat /\ c \in Nat /\ c <= 9 /\ num = 10 * t + c
    BY <1>0, Tens
  <2>2. a \in Nat /\ b \in Nat /\ b <= 9 /\ t = 10 * a + b
    <3>1. a = t \div 10
      BY <1>0, Tens
    <3> QED
      BY <2>1, <3>1, Tens
  <2>3. Digits(num) = <<a, b, c>>
    BY <1>0, <1>3 DEF Digits
  <2> HIDE DEF a, b, c, t
  <2>4. a \in 0..9 /\ a # 0 /\ b \in 0..9 /\ c \in 0..9
    BY <1>0, <1>3, <2>1, <2>2
  <2>5. /\ Digits(num) \in Seq(0..9) /\ Len(Digits(num)) = 3
        /\ Digits(num)[1] = a /\ Digits(num)[2] = b /\ Digits(num)[3] = c
    BY <2>3, <2>4, Triple
  <2>6. Numeral(Digits(num)) = 100 * a + 10 * b + c
    BY <2>5, NumeralIs
  <2>7. Len(Digits(num)) \in 1..3
    BY <2>5
  <2>8. num = 100 * a + 10 * b + c
    BY <2>1, <2>2
  <2> QED
    BY <1>0, <2>4, <2>5, <2>6, <2>7, <2>8 DEF IsByte
<1>4. num < 10 \/ (num >= 10 /\ num < 100) \/ num >= 100
  BY <1>0
<1> QED
  BY <1>1, <1>2, <1>3, <1>4

(* What is let pass as a byte denotes one.                                 *)
LEMMA ByteIs ==
  ASSUME NEW digits, digits \in Seq(0..9), IsByte(digits)
  PROVE  Numeral(digits) \in 0..MaxByte
<1>1. Len(digits) \in 1..3 /\ Numeral(digits) <= 255
  BY DEF IsByte
<1>2. \A i \in 1..Len(digits) : digits[i] \in Nat
  OBVIOUS
<1>3. Numeral(digits) \in Nat
  <2>1. CASE Len(digits) = 1
    BY <1>2, <2>1, NumeralIs
  <2>2. CASE Len(digits) = 2
    <3>1. digits[1] \in Nat /\ digits[2] \in Nat
      BY <1>2, <2>2
    <3>2. Numeral(digits) = 10 * digits[1] + digits[2]
      BY <2>2, NumeralIs
    <3> QED
      BY <3>1, <3>2
  <2>3. CASE Len(digits) = 3
    <3>1. digits[1] \in Nat /\ digits[2] \in Nat /\ digits[3] \in Nat
      BY <1>2, <2>3
    <3>2. Numeral(digits) = 100 * digits[1] + 10 * digits[2] + digits[3]
      BY <2>3, NumeralIs
    <3> QED
      BY <3>1, <3>2
  <2> QED
    BY <1>1, <2>1, <2>2, <2>3
<1>4. Numeral(digits) <= MaxByte /\ MaxByte \in Nat
  BY <1>1, Tops
<1> QED
  BY <1>3, <1>4

(* What parseIPv4 returns are four bytes.                                  *)
LEMMA ParseIPv4Is ==
  ASSUME NEW numbers, numbers \in Seq(Seq(0..9)), ~ Refused(ParseIPv4(numbers))
  PROVE  ParseIPv4(numbers) \in [1..4 -> 0..MaxByte]
<1>1. /\ Len(numbers) = 4 /\ \A i \in 1..4 : IsByte(numbers[i])
      /\ ParseIPv4(numbers) = [i \in 1..4 |-> Numeral(numbers[i])]
  BY DEF ParseIPv4, Refused
<1>0. ASSUME NEW S, NEW s \in Seq(S), NEW i \in 1..Len(s) PROVE s[i] \in S
  OBVIOUS
<1>2. ASSUME NEW i \in 1..4 PROVE Numeral(numbers[i]) \in 0..MaxByte
  <2>1. numbers[i] \in Seq(0..9)
    BY <1>0, <1>1
  <2> QED
    BY <1>1, <2>1, ByteIs
<1> QED
  BY <1>1, <1>2

(* An address of version 4 is read back from its text.                     *)
LEMMA FormattedIPv4 ==
  ASSUME NEW u \in [1..4 -> 0..MaxByte]
  PROVE  ParseIp(FormatIPv4(u)) = u
<1> DEFINE numbers == [i \in 1..4 |-> Digits(u[i])]
<1>1. \A i \in 1..4 : IsByte(numbers[i]) /\ Numeral(numbers[i]) = u[i] /\ numbers[i] \in Seq(0..9)
  BY DigitsOf
<1>2. Len(numbers) = 4
  OBVIOUS
<1>3. ParseIp(FormatIPv4(u)) = ParseIPv4(numbers)
  BY DEF ParseIp, FormatIPv4
<1> HIDE DEF numbers
<1>4. ParseIPv4(numbers) = [i \in 1..4 |-> Numeral(numbers[i])]
  BY <1>1, <1>2 DEF ParseIPv4
<1>5. [i \in 1..4 |-> Numeral(numbers[i])] = u
  BY <1>1
<1> QED
  BY <1>3, <1>4, <1>5

GroupSet == 0..MaxGroup

LEMMA ZeroIsAGroup == 0 \in GroupSet
  BY TopsAreNaturals DEF GroupSet

(* A part is what its fields say. *)
LEMMA PartIs ==
  ASSUME NEW part \in TextParts
  PROVE  /\ "hex" \in DOMAIN part => part.hex \in GroupSet
         /\ "quad" \in DOMAIN part => part.quad \in Seq(Seq(0..9)) /\ "hex" \notin DOMAIN part
<1>1. CASE part \in [hex : 0..MaxGroup]
  <2>1. DOMAIN part = {"hex"} /\ part.hex \in 0..MaxGroup
    BY <1>1
  <2> QED
    BY <2>1 DEF GroupSet
<1>2. CASE part \in [quad : Seq(Seq(0..9))]
  <2> DEFINE Q == Seq(Seq(0..9))
  <2> HIDE DEF Q
  <2>1. DOMAIN part = {"quad"} /\ part.quad \in Q
    BY <1>2 DEF Q
  <2> QED
    BY <2>1 DEF Q
<1>3. CASE part \in [bad : STRING]
  <2>1. DOMAIN part = {"bad"}
    BY <1>3
  <2> QED
    BY <2>1
<1> QED
  BY <1>1, <1>2, <1>3 DEF TextParts

(* A part that is let pass stands for groups.                              *)
LEMMA GroupsOfAPart ==
  ASSUME NEW half, half \in Seq(TextParts), NEW i \in 1..Len(half), PartIsValid(half, i)
  PROVE  Groups(half[i]) \in Seq(GroupSet)
<1> DEFINE part == half[i]
<1>1. part \in TextParts
  OBVIOUS
<1>2. CASE "hex" \in DOMAIN part
  <2>1. part.hex \in GroupSet
    BY <1>1, <1>2, PartIs
  <2>2. Groups(part) = <<part.hex>>
    BY <1>2 DEF Groups
  <2> QED
    BY <2>1, <2>2
<1>3. CASE "hex" \notin DOMAIN part
  <2>1. "quad" \in DOMAIN part /\ ~ Refused(ParseIPv4(part.quad))
    BY <1>3 DEF PartIsValid
  <2>2. part.quad \in Seq(Seq(0..9))
    BY <1>1, <2>1, PartIs
  <2> DEFINE v4 == ParseIPv4(part.quad)
  <2>3. v4 \in [1..4 -> 0..MaxByte]
    BY <2>1, <2>2, ParseIPv4Is
  <2>4. Groups(part) = <<v4[1] * 256 + v4[2], v4[3] * 256 + v4[4]>>
    BY <1>3 DEF Groups
  <2> HIDE DEF v4
  <2>5. ASSUME NEW a \in 0..MaxByte, NEW b \in 0..MaxByte PROVE a * 256 + b \in GroupSet
    <3>1. a \in Nat /\ a <= 255 /\ b \in Nat /\ b <= 255
      BY Tops
    <3>2. a * 256 + b \in Nat /\ a * 256 + b <= 65535
      BY <3>1
    <3>3. a * 256 + b <= MaxGroup /\ MaxGroup \in Nat
      BY <3>2, Tops
    <3> QED
      BY <3>2, <3>3 DEF GroupSet
  <2>6. /\ v4[1] \in 0..MaxByte /\ v4[2] \in 0..MaxByte
        /\ v4[3] \in 0..MaxByte /\ v4[4] \in 0..MaxByte
    BY <2>3
  <2>7. v4[1] * 256 + v4[2] \in GroupSet
    BY <2>5, <2>6
  <2>8. v4[3] * 256 + v4[4] \in GroupSet
    BY <2>5, <2>6
  <2> QED
    BY <2>4, <2>7, <2>8, Pair
<1> QED
  BY <1>2, <1>3

(* What parseGroups returns are groups.                                    *)
LEMMA ParseGroupsIs ==
  ASSUME NEW half, half \in Seq(TextParts), ~ Refused(ParseGroups(half))
  PROVE  ParseGroups(half) \in Seq(GroupSet)
<1> DEFINE s == [i \in 1..Len(half) |-> Groups(half[i])]
<1>1. (\A i \in 1..Len(half) : PartIsValid(half, i)) /\ ParseGroups(half) = FlattenSeq(s)
  BY DEF ParseGroups, Refused
<1>2. \A i \in 1..Len(half) : Groups(half[i]) \in Seq(GroupSet)
  BY <1>1, GroupsOfAPart
<1>3. s \in Seq(Seq(GroupSet))
  BY <1>2
<1>4. PICK g : IsFlat(GroupSet, s, g) /\ FlattenSeq(s) = g[Len(s)]
  <2> HIDE DEF s
  <2> QED
    BY <1>3, FlattenIs
<1>5. Len(s) \in 0..Len(s)
  <2> HIDE DEF s
  <2> QED
    BY <1>3
<1>6. g[Len(s)] \in Seq(GroupSet)
  BY <1>4, <1>5 DEF IsFlat
<1> QED
  BY <1>1, <1>4, <1>6

(* Groups that are written one by one are read as they are. *)
LEMMA ParseHex ==
  ASSUME NEW v, v \in Seq(GroupSet), Len(v) \in 0..8
  PROVE  ParseGroups(Hex(v)) = v /\ ~ Refused(v)
<1>1. Len(Hex(v)) = Len(v) /\ \A i \in 1..Len(v) : Hex(v)[i] = [hex |-> v[i]]
  BY DEF Hex
<1>2. ASSUME NEW i \in 1..Len(v)
      PROVE  PartIsValid(Hex(v), i) /\ Groups(Hex(v)[i]) = <<v[i]>>
  <2>1. DOMAIN [hex |-> v[i]] = {"hex"} /\ [hex |-> v[i]].hex = v[i]
    OBVIOUS
  <2>2. "hex" \in DOMAIN Hex(v)[i] /\ Hex(v)[i].hex = v[i]
    BY <1>1, <2>1
  <2> QED
    BY <2>2 DEF PartIsValid, Groups
<1>3. ParseGroups(Hex(v)) = FlattenSeq([i \in 1..Len(v) |-> Groups(Hex(v)[i])])
  BY <1>1, <1>2 DEF ParseGroups
<1>4. [i \in 1..Len(v) |-> Groups(Hex(v)[i])] = [i \in 1..Len(v) |-> <<v[i]>>]
  BY <1>2
<1>5. FlattenSeq([i \in 1..Len(v) |-> <<v[i]>>]) = v
  BY FlattenSingles
<1>6. v \in [1..Len(v) -> 0..MaxGroup]
  <2>1. v \in [1..Len(v) -> GroupSet]
    OBVIOUS
  <2> QED
    BY <2>1 DEF GroupSet
<1> QED
  BY <1>3, <1>4, <1>5, <1>6, AddressAssumption DEF Refused

(* Cutting, joining and comparing sequences.                               *)
LEMMA Part ==
  ASSUME NEW S, NEW u \in Seq(S), NEW m \in Nat, NEW k \in Nat, 1 <= m, k <= Len(u), m <= k + 1
  PROVE  /\ SubSeq(u, m, k) \in Seq(S) /\ Len(SubSeq(u, m, k)) = k + 1 - m
         /\ \A i \in Nat : 1 <= i /\ i <= k + 1 - m => SubSeq(u, m, k)[i] = u[m + i - 1]
OBVIOUS

LEMMA Joined ==
  ASSUME NEW S, NEW a \in Seq(S), NEW b \in Seq(S)
  PROVE  /\ a \o b \in Seq(S) /\ Len(a \o b) = Len(a) + Len(b)
         /\ \A i \in Nat : 1 <= i /\ i <= Len(a) => (a \o b)[i] = a[i]
         /\ \A i \in Nat : Len(a) < i /\ i <= Len(a) + Len(b) => (a \o b)[i] = b[i - Len(a)]
OBVIOUS

LEMMA ZerosAre ==
  ASSUME NEW S, 0 \in S, NEW b \in Nat
  PROVE  /\ Zeros(b) \in Seq(S) /\ Len(Zeros(b)) = b
         /\ \A i \in Nat : 1 <= i /\ i <= b => Zeros(b)[i] = 0
BY DEF Zeros

LEMMA SameSequence ==
  ASSUME NEW S, NEW a \in Seq(S), NEW b \in Seq(S), Len(a) = Len(b),
         \A i \in Nat : 1 <= i /\ i <= Len(b) => a[i] = b[i]
  PROVE  a = b
OBVIOUS

(* Four bytes, or eight groups.                                            *)
IsAddress(u) == u \in [1..4 -> 0..MaxByte] \/ (u \in Seq(GroupSet) /\ Len(u) = 8)

(* What parseIPv6 returns are eight groups. *)
LEMMA ParseIPv6Is ==
  ASSUME NEW halves, halves \in Seq(Seq(TextParts)), halves # <<>>, ~ Refused(ParseIPv6(halves))
  PROVE  ParseIPv6(halves) \in Seq(GroupSet) /\ Len(ParseIPv6(halves)) = 8
<1> DEFINE parsed == [i \in 1..Len(halves) |-> ParseGroups(halves[i])]
           missing == 8 - (Len(parsed[1]) + Len(parsed[2]))
           groups == IF Len(halves) = 1 THEN parsed[1]
                     ELSE parsed[1] \o Zeros(missing) \o parsed[2]
<1> HIDE DEF parsed, missing, groups
<1>1. ParseIPv6(halves) =
        IF \/ Len(halves) > 2
           \/ \E i \in 1..Len(halves) : Refused(parsed[i])
           \/ Len(halves) = 2 /\ missing < 1
           \/ Len(groups) # 8
        THEN NoAddress ELSE groups
  BY DEF ParseIPv6, parsed, missing, groups
<1>2. /\ ParseIPv6(halves) = groups /\ ~ (Len(halves) > 2) /\ Len(groups) = 8
      /\ \A i \in 1..Len(halves) : ~ Refused(parsed[i])
      /\ ~ (Len(halves) = 2 /\ missing < 1)
  BY <1>1 DEF Refused
<1>3. ASSUME NEW i \in 1..Len(halves) PROVE parsed[i] \in Seq(GroupSet)
  <2>1. halves[i] \in Seq(TextParts) /\ parsed[i] = ParseGroups(halves[i])
    BY DEF parsed
  <2>2. ~ Refused(ParseGroups(halves[i]))
    BY <1>2, <2>1
  <2> QED
    BY <2>1, <2>2, ParseGroupsIs
<1>4. CASE Len(halves) = 1
  <2>1. parsed[1] \in Seq(GroupSet)
    BY <1>3, <1>4
  <2> QED
    BY <1>2, <1>4, <2>1 DEF groups
<1>5. CASE Len(halves) = 2
  <2>1. parsed[1] \in Seq(GroupSet) /\ parsed[2] \in Seq(GroupSet)
    BY <1>3, <1>5
  <2>2. missing \in Nat
    <3>1. missing \in Int
      BY <2>1 DEF missing
    <3> QED
      BY <1>2, <1>5, <3>1
  <2>3. Zeros(missing) \in Seq(GroupSet)
    <3>1. 0 \in GroupSet
      BY ZeroIsAGroup
    <3> QED
      BY <2>2, <3>1, ZerosAre
  <2>4. groups = parsed[1] \o Zeros(missing) \o parsed[2]
    BY <1>5 DEF groups
  <2>5. groups \in Seq(GroupSet)
    BY <2>1, <2>3, <2>4
  <2> QED
    BY <1>2, <2>5
<1>6. Len(halves) \in Nat /\ Len(halves) # 0
  OBVIOUS
<1>7. Len(halves) = 1 \/ Len(halves) = 2
  <2>1. ~ (Len(halves) > 2)
    BY <1>2
  <2>2. \A k \in Nat : k = 0 \/ k = 1 \/ k = 2 \/ k > 2
    OBVIOUS
  <2> QED
    BY <1>6, <2>1, <2>2
<1> QED
  BY <1>4, <1>5, <1>7

(* A text with every group written out is read back.                       *)
LEMMA ReadExpanded ==
  ASSUME NEW u, u \in Seq(GroupSet), Len(u) = 8
  PROVE  ParseIp(Expanded(u)) = u
<1> DEFINE halves == <<Hex(u)>>
<1>1. Len(halves) = 1 /\ halves[1] = Hex(u)
  OBVIOUS
<1>2. ParseGroups(halves[1]) = u /\ ~ Refused(u)
  BY <1>1, ParseHex
<1>3. ParseIp(Expanded(u)) = ParseIPv6(halves)
  BY DEF ParseIp, Expanded
<1> HIDE DEF halves
<1>4. ParseIPv6(halves) = u
  BY <1>1, <1>2 DEF ParseIPv6
<1> QED
  BY <1>3, <1>4

(* A and B are what is left of u without the b elements from s on.         *)
CutOut(S, u, s, b, A, B) ==
  /\ A \in Seq(S) /\ B \in Seq(S) /\ Len(A) = s - 1 /\ Len(B) = Len(u) + 1 - s - b
  /\ A \o Zeros(b) \o B = u

(* A run of zeros that is cut out and put back. *)
LEMMA Rejoined ==
  ASSUME NEW S, 0 \in S, NEW u \in Seq(S), NEW s \in Nat, NEW b \in Nat,
         1 <= s, s + b - 1 <= Len(u), IsZero(u, s, s + b - 1)
  PROVE  CutOut(S, u, s, b, SubSeq(u, 1, s - 1), SubSeq(u, s + b, Len(u)))
<1> DEFINE A == SubSeq(u, 1, s - 1)
           B == SubSeq(u, s + b, Len(u))
           Z == Zeros(b)
           K == Len(u)
<1>0. K \in Nat /\ s + b \in Nat /\ s - 1 \in Nat
  OBVIOUS
<1> HIDE DEF K
<1>1. /\ A \in Seq(S) /\ Len(A) = s - 1
      /\ \A i \in Nat : 1 <= i /\ i <= s - 1 => A[i] = u[1 + i - 1]
  BY <1>0, Part DEF K
<1>2. /\ B \in Seq(S) /\ Len(B) = K + 1 - (s + b)
      /\ \A i \in Nat : 1 <= i /\ i <= K + 1 - (s + b) => B[i] = u[s + b + i - 1]
  <2>1. B = SubSeq(u, s + b, K) /\ 1 <= s + b /\ K <= Len(u) /\ s + b <= K + 1
    BY <1>0 DEF K
  <2> HIDE DEF B
  <2> QED
    BY <1>0, <2>1, Part
<1>3. Z \in Seq(S) /\ Len(Z) = b /\ \A i \in Nat : 1 <= i /\ i <= b => Z[i] = 0
  BY ZerosAre
<1> HIDE DEF A, B, Z
<1> DEFINE AZ == A \o Z
           w == AZ \o B
<1>4. /\ AZ \in Seq(S) /\ Len(AZ) = s - 1 + b
      /\ \A i \in Nat : 1 <= i /\ i <= s - 1 => AZ[i] = A[i]
      /\ \A i \in Nat : s - 1 < i /\ i <= s - 1 + b => AZ[i] = Z[i - (s - 1)]
  <2>1. /\ AZ \in Seq(S) /\ Len(AZ) = Len(A) + Len(Z)
        /\ \A i \in Nat : 1 <= i /\ i <= Len(A) => AZ[i] = A[i]
        /\ \A i \in Nat : Len(A) < i /\ i <= Len(A) + Len(Z) => AZ[i] = Z[i - Len(A)]
    BY <1>1, <1>3, Joined
  <2>2. Len(A) = s - 1 /\ Len(Z) = b
    BY <1>1, <1>3
  <2> HIDE DEF AZ
  <2> QED
    BY <2>1, <2>2
<1> HIDE DEF AZ
<1>5. /\ w \in Seq(S) /\ Len(w) = K
      /\ \A i \in Nat : 1 <= i /\ i <= s - 1 + b => w[i] = AZ[i]
      /\ \A i \in Nat : s - 1 + b < i /\ i <= K => w[i] = B[i - (s - 1 + b)]
  <2>1. /\ w \in Seq(S) /\ Len(w) = Len(AZ) + Len(B)
        /\ \A i \in Nat : 1 <= i /\ i <= Len(AZ) => w[i] = AZ[i]
        /\ \A i \in Nat : Len(AZ) < i /\ i <= Len(AZ) + Len(B) => w[i] = B[i - Len(AZ)]
    BY <1>2, <1>4, Joined
  <2>2. Len(AZ) + Len(B) = K
    BY <1>0, <1>2, <1>4, SMTT(30)
  <2> HIDE DEF w
  <2> QED
    BY <1>4, <2>1, <2>2
<1> HIDE DEF w
<1>6. ASSUME NEW i \in Nat, 1 <= i, i <= K PROVE w[i] = u[i]
  <2>1. CASE i <= s - 1
    <3>1. w[i] = AZ[i]
      BY <1>5, <1>6, <2>1
    <3>2. AZ[i] = A[i]
      BY <1>4, <1>6, <2>1
    <3>3. A[i] = u[i]
      BY <1>1, <1>6, <2>1
    <3> QED
      BY <3>1, <3>2, <3>3
  <2>2. CASE s - 1 < i /\ i <= s - 1 + b
    <3>1. u[i] = 0
      <4>1. i \in s..(s + b - 1)
        BY <2>2
      <4> QED
        BY <4>1 DEF IsZero
    <3>2. Z[i - (s - 1)] = 0
      <4>1. i - (s - 1) \in Nat /\ 1 <= i - (s - 1) /\ i - (s - 1) <= b
        BY <2>2
      <4> QED
        BY <1>3, <4>1
    <3>3. w[i] = AZ[i]
      BY <1>5, <1>6, <2>2
    <3>4. AZ[i] = Z[i - (s - 1)]
      BY <1>4, <2>2
    <3> QED
      BY <3>1, <3>2, <3>3, <3>4
  <2>3. CASE i > s - 1 + b
    <3> DEFINE j == i - (s - 1 + b)
    <3>1. j \in Nat /\ 1 <= j /\ j <= K + 1 - (s + b) /\ s + b + j - 1 = i
      BY <1>0, <1>6, <2>3
    <3>2. w[i] = B[j]
      BY <1>5, <1>6, <2>3
    <3> HIDE DEF j
    <3>3. B[j] = u[s + b + j - 1]
      BY <1>2, <3>1
    <3> QED
      BY <3>1, <3>2, <3>3
  <2> QED
    BY <2>1, <2>2, <2>3
<1>7. w = u
  BY <1>5, <1>6, SameSequence DEF K
<1>8. Len(B) = Len(u) + 1 - s - b
  BY <1>0, <1>2 DEF K
<1> QED
  BY <1>1, <1>2, <1>7, <1>8 DEF CutOut, w, AZ, A, B, Z

(* The b groups from s on are zero.                                        *)
IsRun(u, s, b) ==
  s \in Nat /\ b \in Nat /\ 1 <= s /\ 1 <= b /\ s + b - 1 <= 8 /\ IsZero(u, s, s + b - 1)

(* A text with a run of zeros left out is read back.                       *)
LEMMA ReadCompressed ==
  ASSUME NEW u, u \in Seq(GroupSet), Len(u) = 8, NEW s, NEW b, IsRun(u, s, b)
  PROVE  ParseIPv6(<<Hex(SubSeq(u, 1, s - 1)), Hex(SubSeq(u, s + b, 8))>>) = u
<1> DEFINE A == SubSeq(u, 1, s - 1)
           B == SubSeq(u, s + b, 8)
           halves == <<Hex(A), Hex(B)>>
<1>0. s \in Nat /\ b \in Nat /\ 1 <= s /\ 1 <= b /\ s + b - 1 <= 8 /\ IsZero(u, s, s + b - 1)
  BY DEF IsRun
<1>1. /\ A \in Seq(GroupSet) /\ B \in Seq(GroupSet) /\ Len(A) = s - 1 /\ Len(B) = 9 - s - b
      /\ A \o Zeros(b) \o B = u
  <2>1. 0 \in GroupSet
    BY ZeroIsAGroup
  <2>2. CutOut(GroupSet, u, s, b, SubSeq(u, 1, s - 1), SubSeq(u, s + b, Len(u)))
    BY <1>0, <2>1, Rejoined
  <2>3. CutOut(GroupSet, u, s, b, A, B)
    BY <2>2
  <2> HIDE DEF A, B
  <2> QED
    BY <1>0, <2>3 DEF CutOut
<1> HIDE DEF A, B
<1>2. /\ ParseGroups(Hex(A)) = A /\ ~ Refused(A)
      /\ ParseGroups(Hex(B)) = B /\ ~ Refused(B)
  <2>1. Len(A) \in 0..8 /\ Len(B) \in 0..8
    BY <1>0, <1>1
  <2> QED
    BY <1>1, <2>1, ParseHex
<1> DEFINE parsed == [i \in 1..Len(halves) |-> ParseGroups(halves[i])]
           missing == 8 - (Len(parsed[1]) + Len(parsed[2]))
           groups == IF Len(halves) = 1 THEN parsed[1]
                     ELSE parsed[1] \o Zeros(missing) \o parsed[2]
<1>3. Len(halves) = 2 /\ halves[1] = Hex(A) /\ halves[2] = Hex(B)
  OBVIOUS
<1> HIDE DEF halves
<1>4. parsed[1] = A /\ parsed[2] = B
  BY <1>2, <1>3
<1> HIDE DEF parsed
<1>5. missing = b
  BY <1>0, <1>1, <1>4
<1> HIDE DEF missing
<1>6. groups = u
  BY <1>1, <1>3, <1>4, <1>5
<1> HIDE DEF groups
<1>7. ~ (\/ Len(halves) > 2
         \/ \E i \in 1..Len(halves) : Refused(parsed[i])
         \/ Len(halves) = 2 /\ missing < 1
         \/ Len(groups) # 8)
  <2>1. \A i \in 1..Len(halves) : ~ Refused(parsed[i])
    BY <1>2, <1>3, <1>4
  <2> QED
    BY <1>0, <1>3, <1>5, <1>6, <2>1
<1>8. ParseIPv6(halves) =
        IF \/ Len(halves) > 2
           \/ \E i \in 1..Len(halves) : Refused(parsed[i])
           \/ Len(halves) = 2 /\ missing < 1
           \/ Len(groups) # 8
        THEN NoAddress ELSE groups
  BY DEF ParseIPv6, parsed, missing, groups
<1>9. ParseIPv6(halves) = u
  BY <1>6, <1>7, <1>8
<1> QED
  BY <1>9 DEF halves, A, B

(* What parseIp returns is an address. *)
LEMMA ParsedIsAnAddress ==
  ASSUME NEW text \in Texts, ~ Refused(ParseIp(text))
  PROVE  IsAddress(ParseIp(text))
<1>1. CASE text \in [numbers : Seq(Seq(0..9))]
  <2> DEFINE Q == Seq(Seq(0..9))
  <2>1. DOMAIN text = {"numbers"} /\ text.numbers \in Q
    <3> HIDE DEF Q
    <3> QED
      BY <1>1 DEF Q
  <2>2. ParseIp(text) = ParseIPv4(text.numbers)
    BY <2>1 DEF ParseIp
  <2> QED
    BY <2>1, <2>2, ParseIPv4Is DEF IsAddress
<1>2. CASE text \in [halves : Seq(Seq(TextParts)) \ {<<>>}]
  <2> DEFINE Q == Seq(Seq(TextParts))
  <2>1. DOMAIN text = {"halves"} /\ text.halves \in Q /\ text.halves # <<>>
    <3> HIDE DEF Q
    <3> QED
      BY <1>2 DEF Q
  <2>2. ParseIp(text) = ParseIPv6(text.halves)
    BY <2>1 DEF ParseIp
  <2> QED
    BY <2>1, <2>2, ParseIPv6Is DEF IsAddress
<1> QED
  BY <1>1, <1>2, AddressAssumption

(* What the property says of an address of version 6 and its text. *)
Canonical(u, text) ==
  LET runs == RunsOf(u)
      parts == text.halves
  IN  \/ runs = {} /\ Len(parts) = 1
      \/ /\ Len(parts) = 2
         /\ \A r \in runs :
              LET length == 8 - Len(parts[1]) - Len(parts[2])
              IN  \/ r[2] - r[1] + 1 < length
                  \/ r[2] - r[1] + 1 = length /\ r[1] > Len(parts[1])

(* An address of version 6 is read back from its text, which is canonical. *)
LEMMA FormattedIPv6 ==
  ASSUME NEW u, u \in Seq(GroupSet), Len(u) = 8
  PROVE  ParseIp(FormatIPv6(u)) = u /\ Canonical(u, FormatIPv6(u))
<1>1. PICK s, b : FirstLongest(u, 8, s, b, BestRun(u))
  BY BestRunIs
<1> DEFINE best == BestRun(u)
<1>2. /\ s \in Nat /\ 1 <= s /\ b \in Nat /\ s + b - 1 <= 8
      /\ best = [j \in 1..b |-> (s - 1) + j]
      /\ IsZero(u, s, s + b - 1)
  BY <1>1 DEF FirstLongest
<1>3. \A x, y \in 1..8 : x <= y /\ y <= 8 /\ IsZero(u, x, y) =>
        y - x + 1 < b \/ (y - x + 1 = b /\ s <= x)
  BY <1>1 DEF FirstLongest
<1> HIDE DEF best
<1>4. Len(best) = b /\ (b >= 1 => best[1] = s)
  BY <1>2
<1>5. ASSUME NEW r \in RunsOf(u)
      PROVE  /\ r[1] \in Nat /\ r[2] \in Nat /\ r[1] < r[2]
             /\ r[2] - r[1] + 1 < b \/ (r[2] - r[1] + 1 = b /\ s <= r[1])
  <2>1. r[1] \in 1..8 /\ r[2] \in 1..8 /\ r[1] < r[2] /\ IsZero(u, r[1], r[2])
    BY DEF RunsOf, IsZero
  <2>2. r[2] - r[1] + 1 < b \/ (r[2] - r[1] + 1 = b /\ s <= r[1])
    BY <1>3, <2>1
  <2> QED
    BY <2>1, <2>2
<1>6. CASE b >= 2
  <2> DEFINE A == SubSeq(u, 1, s - 1)
             B == SubSeq(u, s + b, 8)
  <2>1. FormatIPv6(u) = [halves |-> <<Hex(A), Hex(B)>>]
    <3>1. Len(BestRun(u)) = b /\ BestRun(u)[1] = s /\ Len(BestRun(u)) >= 2
      BY <1>2, <1>4, <1>6 DEF best
    <3>2. FormatIPv6(u) =
            [halves |-> <<Hex(SubSeq(u, 1, BestRun(u)[1] - 1)),
                          Hex(SubSeq(u, BestRun(u)[1] + Len(BestRun(u)), 8))>>]
      BY <3>1 DEF FormatIPv6
    <3> QED
      BY <3>1, <3>2
  <2>2. ParseIPv6(<<Hex(A), Hex(B)>>) = u
    <3>1. IsRun(u, s, b)
      BY <1>2, <1>6 DEF IsRun
    <3> QED
      BY <3>1, ReadCompressed
  <2>3. Len(A) = s - 1 /\ Len(B) = 9 - s - b
    <3>1. 0 \in GroupSet
      BY ZeroIsAGroup
    <3>2. CutOut(GroupSet, u, s, b, SubSeq(u, 1, s - 1), SubSeq(u, s + b, Len(u)))
      BY <1>2, <3>1, Rejoined
    <3>3. CutOut(GroupSet, u, s, b, A, B)
      BY <3>2
    <3> HIDE DEF A, B
    <3> QED
      BY <1>2, <3>3 DEF CutOut
  <2> HIDE DEF A, B
  <2>4. Len(Hex(A)) = s - 1 /\ Len(Hex(B)) = 9 - s - b
    BY <1>2, <2>3 DEF Hex
  <2> DEFINE text == [halves |-> <<Hex(A), Hex(B)>>]
             parts == text.halves
  <2>5. Len(parts) = 2 /\ parts[1] = Hex(A) /\ parts[2] = Hex(B)
    OBVIOUS
  <2>6. ParseIp(text) = u
    BY <2>2 DEF ParseIp
  <2>7. 8 - Len(parts[1]) - Len(parts[2]) = b
    BY <1>2, <2>4, <2>5
  <2>8. \A r \in RunsOf(u) : \/ r[2] - r[1] + 1 < b
                             \/ r[2] - r[1] + 1 = b /\ r[1] > Len(parts[1])
    <3> SUFFICES ASSUME NEW r \in RunsOf(u)
                 PROVE  \/ r[2] - r[1] + 1 < b
                        \/ r[2] - r[1] + 1 = b /\ r[1] > Len(parts[1])
      OBVIOUS
    <3>1. Len(parts[1]) = s - 1
      BY <2>4, <2>5
    <3> HIDE DEF parts
    <3> QED
      BY <1>2, <1>5, <3>1
  <2>9. Canonical(u, text)
    BY <2>5, <2>7, <2>8 DEF Canonical
  <2> QED
    BY <2>1, <2>6, <2>9
<1>7. CASE b < 2
  <2>1. FormatIPv6(u) = Expanded(u)
    BY <1>2, <1>4, <1>7 DEF FormatIPv6, best
  <2>2. RunsOf(u) = {}
    BY <1>2, <1>5, <1>7
  <2>3. Len(Expanded(u).halves) = 1
    BY DEF Expanded
  <2> QED
    BY <2>1, <2>2, <2>3, ReadExpanded DEF Canonical
<1> QED
  BY <1>2, <1>6, <1>7

(* What the property says of a result. *)
IsCanonical(res) ==
  ~ Refused(res) /\ "normalized" \in DOMAIN res =>
    /\ ParseIp(res.normalized) = res.units /\ ParseIp(res.expanded) = res.units
    /\ Len(res.units) = 8 => Canonical(res.units, res.normalized)

(* What normalizeIp returns is canonical, whatever the text.               *)
LEMMA NormalizedIsCanonical ==
  ASSUME NEW text \in Texts
  PROVE  IsCanonical(NormalizeIp(text))
<1> DEFINE res == NormalizeIp(text)
<1> DEFINE u == ParseIp(text)
<1>1. CASE Refused(u)
  BY <1>1 DEF NormalizeIp, IsCanonical, Refused
<1>2. CASE ~ Refused(u)
  <2>0. IsAddress(u)
    BY <1>2, ParsedIsAnAddress
  <2> DEFINE four == Len(u) = 4
             short == IF four THEN FormatIPv4(u) ELSE FormatIPv6(u)
             long == IF four THEN FormatIPv4(u) ELSE Expanded(u)
  <2>1. res = [units |-> u, normalized |-> short, expanded |-> long]
    BY <1>2 DEF NormalizeIp
  <2> HIDE DEF u, res
  <2>2. CASE u \in [1..4 -> 0..MaxByte]
    <3>1. Len(u) = 4
      BY <2>2
    <3>2. short = FormatIPv4(u) /\ long = FormatIPv4(u)
      BY <3>1
    <3>3. ParseIp(short) = u /\ ParseIp(long) = u
      BY <2>2, <3>2, FormattedIPv4
    <3> HIDE DEF short, long
    <3>4. res.units = u /\ res.normalized = short /\ res.expanded = long
      BY <2>1
    <3>5. IsCanonical(res)
      BY <3>1, <3>3, <3>4 DEF IsCanonical
    <3> QED
      BY <3>5 DEF res
  <2>3. CASE u \in Seq(GroupSet) /\ Len(u) = 8
    <3>1. short = FormatIPv6(u) /\ long = Expanded(u)
      BY <2>3
    <3>2. ParseIp(short) = u /\ ParseIp(long) = u /\ Canonical(u, short)
      BY <2>3, <3>1, FormattedIPv6, ReadExpanded
    <3> HIDE DEF short, long
    <3>3. res.units = u /\ res.normalized = short /\ res.expanded = long
      BY <2>1
    <3>4. IsCanonical(res)
      BY <3>2, <3>3 DEF IsCanonical
    <3> QED
      BY <3>4 DEF res
  <2> QED
    BY <2>0, <2>2, <2>3 DEF IsAddress
<1> QED
  BY <1>1, <1>2 DEF res

(* normalizeIp: a text that is refused has no address, and of any other    *)
(* the result is the one text of the address it was parsed to, which       *)
(* parses to that address again; in version 6 the first longest run of two *)
(* or more zero groups is the one left out (address.ts:85, 115).           *)
THEOREM TextsAreCanonical == PureSpec => []TextIsCanonical
<1>1. PureInit => TextIsCanonical
  BY DEF PureInit, AddressInit, TextIsCanonical, Refused
<1>2. TextIsCanonical /\ [PureNext]_pureVars => TextIsCanonical'
  <2> SUFFICES ASSUME TextIsCanonical, [PureNext]_pureVars PROVE TextIsCanonical'
    OBVIOUS
  <2>1. CASE UNCHANGED addressVars
    BY <2>1 DEF addressVars, TextIsCanonical
  <2>2. CASE AddressNext
    <3>1. ASSUME NEW text \in Texts, Normalize(text) PROVE TextIsCanonical'
      <4>1. IsCanonical(result')
        BY <3>1, NormalizedIsCanonical DEF Normalize
      <4> QED
        BY <4>1 DEF TextIsCanonical, IsCanonical, Canonical
    <3>2. ASSUME NEW units, Classify(units) PROVE TextIsCanonical'
      <4>1. "normalized" \notin DOMAIN result'
        BY <3>2 DEF Classify, ClassifyIp
      <4> QED
        BY <4>1 DEF TextIsCanonical
    <3> QED
      BY <2>2, <3>1, <3>2 DEF AddressNext
  <2> QED
    BY <2>1, <2>2 DEF PureNext, pureVars
<1> QED
  BY <1>1, <1>2, PTL DEF PureSpec

=============================================================================

------------------------------ MODULE Wire_proofs ------------------------------
(***************************************************************************)
(* Proofs about the DNS codec: the queries that are sent, the names that   *)
(* are read, what is read of a message of which the end is missing, and    *)
(* that a message laid out as the format says is decoded to its records.   *)
(* The recursions of readName, TextDecoder, decodeTxt, decodeTypeBitmap,   *)
(* dnskeyKeyTag and decodeRdata are shown to have solutions: the first and *)
(* the last two go up from 0 (RecursionExists), the others on through the  *)
(* message (ScanExists).                                                   *)
(***************************************************************************)
EXTENDS PureTools, Ip_proofs, SequenceTheorems, TLAPS

(* Names and queries *)

(* The labels readName reads.                                              *)
LabelReads == [ok : BOOLEAN, value : Seq(Seq(Nat)), next : Nat]

(* The operators readName is built from return what they should.           *)
LEMMA SliceIs ==
  ASSUME NEW b \in Seq(Nat), NEW i \in Nat, NEW end \in Nat
  PROVE  Slice(b, i, end) \in Seq(Nat)
<1> DEFINE e == IF end > Len(b) THEN Len(b) ELSE end
<1>1. e \in Nat /\ e <= Len(b)
  OBVIOUS
<1> HIDE DEF e
<1>2. SubSeq(b, i + 1, e) \in Seq(Nat)
  BY <1>1
<1> QED
  BY <1>2 DEF Slice, e

LEMMA ThrowsIs == Throws \in LabelReads
BY DEF Throws, LabelReads

LEMMA ByteAt ==
  ASSUME NEW b \in Seq(Nat), NEW pos \in Nat, NEW k \in Nat, k >= 1, Has(b, pos, k)
  PROVE  U8(b, pos) \in Nat
<1>1. pos + 1 \in 1..Len(b)
  BY DEF Has
<1> QED
  BY <1>1 DEF U8

LEMMA RoundIs ==
  ASSUME NEW b \in Seq(Nat), NEW pos \in Nat, NEW rest \in [Nat -> LabelReads]
  PROVE  Round(b, pos, rest) \in LabelReads
<1>0. \A i \in Nat : rest[i] \in LabelReads
  OBVIOUS
<1>1. CASE ~ Has(b, pos, 1)
  BY <1>1, ThrowsIs DEF Round
<1>2. CASE Has(b, pos, 1) /\ U8(b, pos) = 0
  <2>1. Round(b, pos, rest) = Read(<<>>, pos + 1)
    BY <1>2 DEF Round
  <2>2. <<>> \in Seq(Seq(Nat)) /\ pos + 1 \in Nat
    OBVIOUS
  <2> QED
    BY <2>1, <2>2 DEF Read, LabelReads
<1>3. CASE Has(b, pos, 1) /\ U8(b, pos) # 0 /\ U8(b, pos) < 192
  <2> DEFINE r == rest[pos + 1 + U8(b, pos)]
             l == Slice(b, pos + 1, pos + 1 + U8(b, pos))
  <2>1. U8(b, pos) \in Nat
    BY <1>3, ByteAt
  <2>2. r \in LabelReads /\ l \in Seq(Nat)
    <3>1. pos + 1 \in Nat /\ pos + 1 + U8(b, pos) \in Nat
      BY <2>1
    <3> QED
      BY <1>0, <3>1, SliceIs
  <2>3. Round(b, pos, rest) = [r EXCEPT !.value = <<l>> \o @]
    BY <1>3 DEF Round
  <2> HIDE DEF r, l
  <2>4. <<l>> \o r.value \in Seq(Seq(Nat))
    BY <2>2 DEF LabelReads
  <2> QED
    BY <2>2, <2>3, <2>4 DEF LabelReads
<1>4. CASE Has(b, pos, 1) /\ U8(b, pos) # 0 /\ ~ (U8(b, pos) < 192)
  <2>1. CASE ~ Has(b, pos, 2)
    BY <1>4, <2>1, ThrowsIs DEF Round
  <2>2. CASE Has(b, pos, 2)
    <3> DEFINE to == U16(b, pos) % 16384
    <3>1. U8(b, pos) \in Nat /\ U8(b, pos + 1) \in Nat
      <4>1. Has(b, pos + 1, 1)
        BY <2>2 DEF Has
      <4> QED
        BY <1>4, <4>1, ByteAt
    <3>2. U16(b, pos) \in Nat
      BY <3>1 DEF U16
    <3>3. to \in Nat
      BY <3>2
    <3>4. Round(b, pos, rest) = Jumped(rest[to], pos)
      BY <1>4, <2>2 DEF Round
    <3> HIDE DEF to
    <3> DEFINE r == rest[to]
    <3>5. r \in LabelReads /\ pos + 2 \in Nat
      BY <1>0, <3>3
    <3>6. Round(b, pos, rest) = [r EXCEPT !.next = pos + 2]
      BY <3>4 DEF Jumped
    <3> HIDE DEF r
    <3> QED
      BY <3>5, <3>6 DEF LabelReads
  <2> QED
    BY <2>1, <2>2
<1> QED
  BY <1>1, <1>2, <1>3, <1>4

(* readName as a function of the rounds it has left and the byte it is at. *)
IsReader(b, F) ==
  /\ F \in [0..Rounds -> [Nat -> LabelReads]]
  /\ \A pos \in Nat : F[0][pos] = OutOfRounds
  /\ \A k \in 1..Rounds : \A pos \in Nat : F[k][pos] = Round(b, pos, F[k - 1])

(* The recursion of readName has a solution.                               *)
LEMMA ReaderExists ==
  ASSUME NEW b \in Seq(Nat)
  PROVE  \E F : IsReader(b, F) /\ \A at : ReadLabels(b, at) = F[Rounds][at]
<1> DEFINE S == [Nat -> LabelReads]
           base == [pos \in Nat |-> OutOfRounds]
           step == [p \in (1..Rounds) \X S |-> [pos \in Nat |-> Round(b, pos, p[2])]]
           Body(Name) ==
             [k \in 0..Rounds |->
                [pos \in Nat |-> IF k = 0 THEN OutOfRounds ELSE Round(b, pos, Name[k - 1])]]
           F == CHOOSE Name : Name = Body(Name)
<1>1. Rounds \in Nat
  BY WireAssumption
<1>2. Recursive(S, base, Rounds, step)
  <2>1. base \in S
    BY ThrowsIs DEF OutOfRounds
  <2>2. step \in [(1..Rounds) \X S -> S]
    <3> SUFFICES ASSUME NEW p \in (1..Rounds) \X S
                 PROVE  [pos \in Nat |-> Round(b, pos, p[2])] \in S
      OBVIOUS
    <3>1. p[2] \in S
      OBVIOUS
    <3> QED
      BY <3>1, RoundIs
  <2> HIDE DEF S, base, step
  <2> QED
    BY <1>1, <2>1, <2>2 DEF Recursive
<1>3. PICK g \in [0..Rounds -> S] : g[0] = base /\ \A i \in 1..Rounds : g[i] = step[<<i, g[i - 1]>>]
  <2> HIDE DEF S, base, step
  <2> QED
    BY <1>2, RecursionExists
<1>4. \A k \in 1..Rounds : g[k] = [pos \in Nat |-> Round(b, pos, g[k - 1])]
  <2> SUFFICES ASSUME NEW k \in 1..Rounds PROVE g[k] = [pos \in Nat |-> Round(b, pos, g[k - 1])]
    OBVIOUS
  <2> HIDE DEF S
  <2>1. <<k, g[k - 1]>> \in (1..Rounds) \X S
    <3>1. k - 1 \in 0..Rounds
      BY <1>1
    <3> QED
      BY <1>3, <3>1
  <2>2. step[<<k, g[k - 1]>>] = [pos \in Nat |-> Round(b, pos, <<k, g[k - 1]>>[2])]
    BY <2>1
  <2> QED
    BY <1>3, <2>2
<1> HIDE DEF S
<1>5. g = Body(g)
  <2>1. \A k \in 0..Rounds :
          g[k] = [pos \in Nat |-> IF k = 0 THEN OutOfRounds ELSE Round(b, pos, g[k - 1])]
    <3> SUFFICES ASSUME NEW k \in 0..Rounds
                 PROVE  g[k] = [pos \in Nat |-> IF k = 0 THEN OutOfRounds ELSE Round(b, pos, g[k - 1])]
      OBVIOUS
    <3>1. CASE k = 0
      BY <1>3, <3>1
    <3>2. CASE k # 0
      <4>1. k \in 1..Rounds
        BY <1>1, <3>2
      <4> QED
        BY <1>4, <3>2, <4>1
    <3> QED
      BY <3>1, <3>2
  <2>2. g = [k \in 0..Rounds |-> g[k]]
    BY <1>3
  <2> HIDE DEF step, base
  <2> QED
    BY <2>1, <2>2
<1>6. F = Body(F)
  BY <1>5
<1>7. \A at : ReadLabels(b, at) = F[Rounds][at]
  BY DEF ReadLabels
<1> HIDE DEF F
<1>8. \A k \in 0..Rounds :
        F[k] = [pos \in Nat |-> IF k = 0 THEN OutOfRounds ELSE Round(b, pos, F[k - 1])]
  BY <1>6
<1> HIDE DEF Body, step
<1> DEFINE Good == {k \in Nat : F[k] \in S}
<1>9. 0 \in Good
  <2>1. F[0] = [pos \in Nat |-> OutOfRounds]
    <3>1. 0 \in 0..Rounds
      BY <1>1
    <3> QED
      BY <1>8, <3>1
  <2> QED
    BY <2>1, ThrowsIs DEF OutOfRounds, S
<1>10. ASSUME NEW k \in 1..Rounds
       PROVE  F[k] = [pos \in Nat |-> Round(b, pos, F[k - 1])]
  <2>1. k \in 0..Rounds /\ k # 0
    BY <1>1
  <2> QED
    BY <1>8, <2>1
<1>11. ASSUME NEW k \in 1..Rounds, k - 1 \in Good PROVE k \in Good
  <2>1. F[k - 1] \in [Nat -> LabelReads]
    BY <1>11 DEF S
  <2>2. [pos \in Nat |-> Round(b, pos, F[k - 1])] \in [Nat -> LabelReads]
    BY <2>1, RoundIs
  <2>3. F[k] \in S
    BY <1>10, <2>2 DEF S
  <2> QED
    BY <1>1, <2>3
<1>12. \A k \in 0..Rounds : F[k] \in S
  <2>1. \A k \in 0..Rounds : k \in Good
    <3> HIDE DEF Good
    <3> QED
      BY <1>1, <1>9, <1>11, Upward
  <2> QED
    BY <2>1
<1>13. F = [k \in 0..Rounds |-> F[k]]
  BY <1>6 DEF Body
<1>14. F \in [0..Rounds -> S]
  BY <1>12, <1>13
<1>15. \A pos \in Nat : F[0][pos] = OutOfRounds
  <2>1. 0 \in 0..Rounds
    BY <1>1
  <2>2. F[0] = [pos \in Nat |-> OutOfRounds]
    BY <1>8, <2>1
  <2> QED
    BY <2>2
<1>16. IsReader(b, F)
  BY <1>10, <1>14, <1>15 DEF IsReader, S
<1> QED
  BY <1>7, <1>16

(* A label, or the root, where it is written. *)
LabelAt(b, l, pos, to) ==
  /\ pos \in Nat /\ to = pos + 1 + Len(l) /\ to <= Len(b)
  /\ l \in Seq(Nat) /\ 1 <= Len(l) /\ Len(l) <= 63
  /\ U8(b, pos) = Len(l) /\ Slice(b, pos + 1, to) = l
RootAt(b, pos) == pos \in Nat /\ pos + 1 <= Len(b) /\ U8(b, pos) = 0

(* A label in front of what is read behind it.                             *)
Labelled(l, r) == [r EXCEPT !.value = <<l>> \o @]

LEMMA LabelledRead ==
  ASSUME NEW l, NEW s, NEW e
  PROVE  Labelled(l, Read(s, e)) = Read(<<l>> \o s, e)
<1> DEFINE r == [ok |-> TRUE, value |-> s, next |-> e]
<1>1. r.value = s
  OBVIOUS
<1>2. \A a, v : [[ok |-> a, value |-> s, next |-> e] EXCEPT !.value = v]
                 = [ok |-> a, value |-> v, next |-> e]
  OBVIOUS
<1> HIDE DEF r
<1>3. Labelled(l, r) = [r EXCEPT !.value = <<l>> \o r.value]
  BY DEF Labelled
<1>4. Labelled(l, r) = [ok |-> TRUE, value |-> <<l>> \o s, next |-> e]
  BY <1>1, <1>2, <1>3 DEF r
<1> QED
  BY <1>4 DEF Read, r

(* A round at a label, and a round at the root.                            *)
LEMMA LabelRound ==
  ASSUME NEW b, NEW pos, NEW rest, Has(b, pos, 1), U8(b, pos) # 0, U8(b, pos) < 192
  PROVE  Round(b, pos, rest) =
           Labelled(Slice(b, pos + 1, pos + 1 + U8(b, pos)), rest[pos + 1 + U8(b, pos)])
<1> DEFINE r == [rest[pos + 1 + U8(b, pos)] EXCEPT
                   !.value = <<Slice(b, pos + 1, pos + 1 + U8(b, pos))>> \o @]
           p == Jumped(rest[U16(b, pos) % 16384], pos)
<1>1. Round(b, pos, rest) =
        IF ~ Has(b, pos, 1) THEN Throws
        ELSE IF U8(b, pos) = 0 THEN Read(<<>>, pos + 1)
        ELSE IF U8(b, pos) < 192 THEN r
        ELSE IF ~ Has(b, pos, 2) THEN Throws ELSE p
  BY DEF Round
<1>2. r = Labelled(Slice(b, pos + 1, pos + 1 + U8(b, pos)), rest[pos + 1 + U8(b, pos)])
  BY DEF Labelled
<1> HIDE DEF r, p
<1> QED
  BY <1>1, <1>2

LEMMA LabelStep ==
  ASSUME NEW b \in Seq(Nat), NEW l, NEW pos, NEW to, LabelAt(b, l, pos, to), NEW rest
  PROVE  Round(b, pos, rest) = Labelled(l, rest[to])
<1>1. /\ pos \in Nat /\ to = pos + 1 + Len(l) /\ to <= Len(b)
      /\ l \in Seq(Nat) /\ 1 <= Len(l) /\ Len(l) <= 63
      /\ U8(b, pos) = Len(l) /\ Slice(b, pos + 1, to) = l
  BY DEF LabelAt
<1>2. Has(b, pos, 1) /\ U8(b, pos) # 0 /\ U8(b, pos) < 192 /\ pos + 1 + U8(b, pos) = to
  BY <1>1 DEF Has
<1>3. Round(b, pos, rest) =
        Labelled(Slice(b, pos + 1, pos + 1 + U8(b, pos)), rest[pos + 1 + U8(b, pos)])
  BY <1>2, LabelRound
<1> QED
  BY <1>1, <1>2, <1>3

LEMMA RootStep ==
  ASSUME NEW b \in Seq(Nat), NEW pos, RootAt(b, pos), NEW rest
  PROVE  Round(b, pos, rest) = Read(<<>>, pos + 1)
<1>1. Has(b, pos, 1) /\ U8(b, pos) = 0
  BY DEF Has, RootAt
<1> QED
  BY <1>1 DEF Round

(* A name that is written label after label, the i-th up to byte at[i]. *)
IsLaid(b, t, at) ==
  /\ at \in [0..Len(t) -> Nat]
  /\ \A i \in 1..Len(t) : LabelAt(b, t[i], at[i - 1], at[i])
  /\ RootAt(b, at[Len(t)])

(* The rest of a sequence, from its i-th element on.                       *)
LEMMA FromOneOn ==
  ASSUME NEW S, NEW t \in Seq(S), NEW i \in 1..Len(t)
  PROVE  /\ SubSeq(t, i, Len(t)) = <<t[i]>> \o SubSeq(t, i + 1, Len(t))
         /\ SubSeq(t, Len(t) + 1, Len(t)) = <<>>
         /\ SubSeq(t, 1, Len(t)) = t
<1> DEFINE K == Len(t)
           a == SubSeq(t, i, K)
           c == SubSeq(t, i + 1, K)
           d == <<t[i]>>
<1>0. K \in Nat /\ i \in Nat /\ 1 <= i /\ i <= K /\ t[i] \in S /\ K <= Len(t)
  OBVIOUS
<1> HIDE DEF K
<1>1. /\ a \in Seq(S) /\ Len(a) = K + 1 - i
      /\ \A j \in Nat : 1 <= j /\ j <= K + 1 - i => a[j] = t[i + j - 1]
  BY <1>0, Part
<1>2. /\ c \in Seq(S) /\ Len(c) = K + 1 - (i + 1)
      /\ \A j \in Nat : 1 <= j /\ j <= K + 1 - (i + 1) => c[j] = t[i + 1 + j - 1]
  <2>1. i + 1 \in Nat /\ 1 <= i + 1 /\ i + 1 <= K + 1
    BY <1>0
  <2> QED
    BY <1>0, <2>1, Part
<1>3. d \in Seq(S) /\ Len(d) = 1 /\ d[1] = t[i]
  BY <1>0
<1> HIDE DEF a, c, d
<1>4. /\ d \o c \in Seq(S) /\ Len(d \o c) = Len(d) + Len(c)
      /\ \A j \in Nat : 1 <= j /\ j <= Len(d) => (d \o c)[j] = d[j]
      /\ \A j \in Nat : Len(d) < j /\ j <= Len(d) + Len(c) => (d \o c)[j] = c[j - Len(d)]
  BY <1>2, <1>3, Joined
<1> DEFINE w == d \o c
<1> HIDE DEF w
<1>5. ASSUME NEW j \in Nat, 1 <= j, j <= Len(a) PROVE w[j] = a[j]
  <2>1. CASE j = 1
    <3>1. w[1] = t[i]
      BY <1>3, <1>4 DEF w
    <3>2. a[1] = t[i]
      BY <1>0, <1>1
    <3> QED
      BY <2>1, <3>1, <3>2
  <2>2. CASE j # 1
    <3>1. j - 1 \in Nat /\ 1 <= j - 1 /\ j - 1 <= K + 1 - (i + 1) /\ i + 1 + (j - 1) - 1 = i + j - 1
      BY <1>0, <1>1, <1>5, <2>2
    <3>2. w[j] = c[j - 1]
      BY <1>2, <1>3, <1>4, <1>5, <3>1 DEF w
    <3>3. c[j - 1] = t[i + j - 1]
      BY <1>2, <3>1
    <3>4. a[j] = t[i + j - 1]
      BY <1>1, <1>5
    <3> QED
      BY <3>2, <3>3, <3>4
  <2> QED
    BY <2>1, <2>2
<1>6. Len(w) = Len(a) /\ w \in Seq(S)
  BY <1>0, <1>1, <1>2, <1>3, <1>4 DEF w
<1>7. w = a
  BY <1>1, <1>5, <1>6, SameSequence
<1>8. SubSeq(t, K + 1, K) = <<>>
  BY <1>0
<1>9. SubSeq(t, 1, Len(t)) = t
  OBVIOUS
<1> QED
  BY <1>7, <1>8, <1>9 DEF w, a, c, d, K

(* A name is read in as many rounds as it has labels and one for the root; *)
(* with less it is taken for a loop.                                       *)
LEMMA NameIsRead ==
  ASSUME NEW b \in Seq(Nat), NEW t \in Seq(Seq(Nat)), NEW at, IsLaid(b, t, at)
  PROVE  /\ Len(t) < Rounds => ReadLabels(b, at[0]) = Read(t, at[Len(t)] + 1)
         /\ Len(t) >= Rounds => ~ ReadLabels(b, at[0]).ok
<1> DEFINE K == Len(t)
           end == at[K] + 1
<1>1. PICK F : IsReader(b, F) /\ \A x : ReadLabels(b, x) = F[Rounds][x]
  BY ReaderExists
<1>2. /\ F \in [0..Rounds -> [Nat -> LabelReads]]
      /\ \A pos \in Nat : F[0][pos] = OutOfRounds
      /\ \A k \in 1..Rounds : \A pos \in Nat : F[k][pos] = Round(b, pos, F[k - 1])
  BY <1>1 DEF IsReader
<1>3. /\ at \in [0..K -> Nat]
      /\ \A i \in 1..K : LabelAt(b, t[i], at[i - 1], at[i])
      /\ RootAt(b, at[K])
  BY DEF IsLaid
<1>4. K \in Nat /\ Rounds \in Nat
  BY WireAssumption
<1> DEFINE Reads(k, i) == F[k][at[i]] = Read(SubSeq(t, i + 1, K), end)
           Good == {j \in 0..K : \A k \in 0..Rounds :
                      /\ k > j => Reads(k, K - j)
                      /\ k <= j => ~ F[k][at[K - j]].ok}
<1>5. \A i \in 0..K : at[i] \in Nat
  BY <1>3
<1>6. \A k \in 1..Rounds : k - 1 \in 0..Rounds /\ k \in Nat
  BY <1>4
<1>7. \A i \in 0..K : ~ F[0][at[i]].ok
  BY <1>2, <1>5 DEF OutOfRounds, Throws
<1>8. 0 \in Good
  <2>1. ASSUME NEW k \in 0..Rounds, k > 0 PROVE Reads(k, K)
    <3>1. k \in 1..Rounds /\ K \in 0..K
      BY <1>4, <2>1
    <3>2. F[k][at[K]] = Round(b, at[K], F[k - 1])
      BY <1>2, <1>5, <3>1
    <3>3. F[k][at[K]] = Read(<<>>, end)
      BY <1>3, <3>2, RootStep
    <3>4. SubSeq(t, K + 1, K) = <<>>
      OBVIOUS
    <3> QED
      BY <3>3, <3>4
  <2>2. ASSUME NEW k \in 0..Rounds, k <= 0 PROVE ~ F[k][at[K]].ok
    <3>1. k = 0 /\ K \in 0..K
      BY <1>4, <2>2
    <3> QED
      BY <1>7, <3>1
  <2>3. 0 \in 0..K /\ K - 0 = K
    BY <1>4
  <2> HIDE DEF Reads
  <2> QED
    BY <2>1, <2>2, <2>3
<1>9. ASSUME NEW j \in 1..K, j - 1 \in Good PROVE j \in Good
  <2> DEFINE i == K - j
             m == i + 1
  <2>1. i \in 0..K /\ m \in 1..K /\ m - 1 = i /\ K - (j - 1) = m /\ m \in 0..K /\ j \in Nat
    BY <1>4
  <2>2. \A k \in 0..Rounds : /\ k > j - 1 => Reads(k, m)
                             /\ k <= j - 1 => ~ F[k][at[m]].ok
    BY <1>9, <2>1
  <2> HIDE DEF i, m, Good
  <2>3. LabelAt(b, t[m], at[i], at[m])
    BY <1>3, <2>1
  <2>4. ASSUME NEW k \in 1..Rounds
        PROVE  F[k][at[i]] = Labelled(t[m], F[k - 1][at[m]])
    <3>1. F[k][at[i]] = Round(b, at[i], F[k - 1])
      BY <1>2, <1>5, <2>1
    <3> QED
      BY <2>3, <3>1, LabelStep
  <2>5. ASSUME NEW k \in 0..Rounds, k > j PROVE Reads(k, i)
    <3>1. k \in 1..Rounds /\ k - 1 \in 0..Rounds /\ k - 1 > j - 1
      BY <1>4, <2>1, <2>5
    <3>2. F[k - 1][at[m]] = Read(SubSeq(t, m + 1, K), end)
      <4>1. Reads(k - 1, m)
        <5> HIDE DEF Reads
        <5> QED
          BY <2>2, <3>1
      <4> QED
        BY <4>1
    <3>3. F[k][at[i]] = Read(<<t[m]>> \o SubSeq(t, m + 1, K), end)
      BY <2>4, <3>1, <3>2, LabelledRead, SMTT(30)
    <3>4. SubSeq(t, m, K) = <<t[m]>> \o SubSeq(t, m + 1, K)
      BY <2>1, FromOneOn
    <3> QED
      BY <3>3, <3>4 DEF m
  <2>6. ASSUME NEW k \in 0..Rounds, k <= j PROVE ~ F[k][at[i]].ok
    <3>1. CASE k = 0
      BY <1>7, <2>1, <3>1
    <3>2. CASE k # 0
      <4>1. k \in 1..Rounds /\ k - 1 \in 0..Rounds /\ k - 1 <= j - 1
        BY <1>4, <2>1, <2>6, <3>2
      <4>2. ~ F[k - 1][at[m]].ok
        BY <2>2, <4>1
      <4> DEFINE r == F[k - 1][at[m]]
      <4>3. r \in LabelReads
        BY <1>2, <1>5, <2>1, <4>1
      <4>4. F[k][at[i]] = Labelled(t[m], r)
        BY <2>4, <4>1
      <4>5. ~ r.ok
        BY <4>2
      <4> HIDE DEF r
      <4>6. Labelled(t[m], r).ok = r.ok
        BY <4>3 DEF Labelled, LabelReads
      <4> QED
        BY <4>4, <4>5, <4>6
    <3> QED
      BY <3>1, <3>2
  <2>7. j \in 0..K
    BY <1>4
  <2> HIDE DEF Reads
  <2> QED
    BY <2>5, <2>6, <2>7 DEF Good, i
<1>10. K \in Good
  <2> HIDE DEF Good
  <2>1. \A j \in 0..K : j \in Good
    BY <1>4, <1>8, <1>9, Upward
  <2> QED
    BY <1>4, <2>1
<1>11. Rounds \in 0..Rounds /\ K - K = 0
  BY <1>4
<1>12. /\ Rounds > K => Reads(Rounds, 0)
       /\ Rounds <= K => ~ F[Rounds][at[0]].ok
  <2> HIDE DEF Reads
  <2> QED
    BY <1>10, <1>11
<1>13. SubSeq(t, 1, K) = t
  OBVIOUS
<1>14. ReadLabels(b, at[0]) = F[Rounds][at[0]]
  BY <1>1
<1>15. Rounds > K => ReadLabels(b, at[0]) = Read(t, end)
  <2>1. 0 + 1 = 1
    OBVIOUS
  <2> HIDE DEF K, end
  <2> QED
    BY <1>12, <1>13, <1>14, <2>1
<1>16. Rounds <= K => ~ ReadLabels(b, at[0]).ok
  BY <1>12, <1>14
<1> HIDE DEF K
<1> QED
  BY <1>4, <1>15, <1>16 DEF K

-----------------------------------------------------------------------------
(* encodeQuery *)

(* The elements of c are those of a and then those of b.                   *)
IsJoin(a, b, c) ==
  /\ Len(a) \in Nat /\ Len(b) \in Nat /\ Len(c) = Len(a) + Len(b)
  /\ \A i \in Nat : 1 <= i /\ i <= Len(a) => c[i] = a[i]
  /\ \A i \in Nat : Len(a) < i /\ i <= Len(a) + Len(b) => c[i] = b[i - Len(a)]

LEMMA Join ==
  ASSUME NEW S, NEW a \in Seq(S), NEW b \in Seq(S), NEW c, c = a \o b
  PROVE  c \in Seq(S) /\ IsJoin(a, b, c)
<1>1. Len(a) \in Nat /\ Len(b) \in Nat
  OBVIOUS
<1> QED
  BY <1>1, Joined DEF IsJoin

(* Where the pieces of a flattened sequence are. *)
IsPiece(g, s, i) ==
  /\ Len(g[i]) = Len(g[i - 1]) + Len(s[i]) /\ Len(g[i]) <= Len(g[Len(s)])
  /\ \A j \in Nat : 1 <= j /\ j <= Len(s[i]) => g[Len(s)][Len(g[i - 1]) + j] = s[i][j]

(* Each piece lies behind the ones before it.                              *)
LEMMA FlatLayout ==
  ASSUME NEW S, NEW s \in Seq(Seq(S)), NEW g, IsFlat(S, s, g), NEW i \in 1..Len(s)
  PROVE  IsPiece(g, s, i)
<1> DEFINE K == Len(s)
           from == Len(g[i - 1])
           L == Len(s[i])
<1>1. /\ g \in [0..K -> Seq(S)] /\ g[0] = <<>>
      /\ \A m \in 1..K : g[m] = g[m - 1] \o s[m]
  BY DEF IsFlat
<1>2. K \in Nat /\ i \in Nat /\ 1 <= i /\ i <= K /\ s[i] \in Seq(S) /\ g[i - 1] \in Seq(S) /\ g[i] \in Seq(S)
  <2>1. K \in Nat /\ s[i] \in Seq(S) /\ i \in 0..K /\ i - 1 \in 0..K
    OBVIOUS
  <2> HIDE DEF K
  <2> QED
    BY <1>1, <2>1
<1>3. g[i] = g[i - 1] \o s[i]
  BY <1>1
<1>4. /\ Len(g[i]) = from + L /\ from \in Nat /\ L \in Nat
      /\ \A j \in Nat : from < j /\ j <= from + L => g[i][j] = s[i][j - from]
  <2>1. IsJoin(g[i - 1], s[i], g[i])
    BY <1>2, <1>3, Join
  <2> QED
    BY <2>1 DEF IsJoin
<1> DEFINE Good == {m \in Nat : m >= i => /\ Len(g[i]) <= Len(g[m])
                                        /\ \A j \in Nat : 1 <= j /\ j <= L => g[m][from + j] = s[i][j]}
<1>5. 0 \in Good
  BY <1>2
<1> HIDE DEF from, L, K
<1>6. ASSUME NEW m \in 1..K, m - 1 \in Good PROVE m \in Good
  <2>0. m \in Nat /\ g[m - 1] \in Seq(S) /\ s[m] \in Seq(S)
    <3>1. m \in Nat /\ m - 1 \in 0..K
      BY <1>2
    <3>2. s[m] \in Seq(S)
      BY DEF K
    <3> QED
      BY <1>1, <3>1, <3>2
  <2>1. CASE m < i
    BY <1>2, <2>0, <2>1
  <2>2. CASE m = i
    <3>1. ASSUME NEW j \in Nat, 1 <= j, j <= L PROVE g[m][from + j] = s[i][j]
      <4>1. from + j \in Nat /\ from < from + j /\ from + j <= from + L /\ from + j - from = j
        BY <1>4, <3>1
      <4> QED
        BY <1>4, <2>2, <4>1
    <3>2. Len(g[i]) <= Len(g[m])
      BY <1>2, <2>2
    <3> QED
      BY <2>0, <3>1, <3>2
  <2>3. CASE m > i
    <3>1. g[m] = g[m - 1] \o s[m]
      BY <1>1
    <3>2. /\ Len(g[m]) = Len(g[m - 1]) + Len(s[m])
          /\ \A j \in Nat : 1 <= j /\ j <= Len(g[m - 1]) => g[m][j] = g[m - 1][j]
      <4>1. IsJoin(g[m - 1], s[m], g[m])
        BY <2>0, <3>1, Join
      <4> QED
        BY <4>1 DEF IsJoin
    <3>3. /\ Len(g[i]) <= Len(g[m - 1])
          /\ \A j \in Nat : 1 <= j /\ j <= L => g[m - 1][from + j] = s[i][j]
      <4>1. m - 1 >= i
        BY <1>2, <2>0, <2>3
      <4> QED
        BY <1>6, <4>1
    <3>4. Len(g[m - 1]) \in Nat /\ Len(s[m]) \in Nat /\ Len(g[i]) \in Nat
      BY <1>2, <2>0
    <3>5. Len(g[i]) <= Len(g[m])
      <4>1. Len(g[m]) = Len(g[m - 1]) + Len(s[m])
        BY <3>2
      <4>2. Len(g[i]) <= Len(g[m - 1])
        BY <3>3
      <4>3. \A p, q, r, t \in Nat : p <= q /\ t = q + r => p <= t
        OBVIOUS
      <4>4. Len(g[m]) \in Nat
        <5>1. g[m] \in Seq(S)
          BY <2>0, <3>1, Join
        <5> QED
          BY <5>1
      <4> QED
        BY <3>4, <4>1, <4>2, <4>3, <4>4
    <3>6. ASSUME NEW j \in Nat, 1 <= j, j <= L PROVE g[m][from + j] = s[i][j]
      <4>1. from + j \in Nat /\ 1 <= from + j /\ from + j <= Len(g[m - 1])
        BY <1>4, <3>3, <3>4, <3>6
      <4> QED
        BY <3>2, <3>3, <3>6, <4>1
    <3> QED
      BY <2>0, <3>5, <3>6
  <2> QED
    BY <1>2, <2>0, <2>1, <2>2, <2>3
<1>7. K \in Good
  <2> HIDE DEF Good
  <2>1. \A m \in 0..K : m \in Good
    BY <1>2, <1>5, <1>6, Upward
  <2>2. K \in 0..K
    BY <1>2
  <2> QED
    BY <2>1, <2>2
<1> QED
  BY <1>2, <1>4, <1>7 DEF IsPiece, K, from, L

(* A name and the bytes it is written in. *)
IsWritten(t, E, at) ==
  /\ E \in Seq(Nat) /\ at \in [0..Len(t) -> Nat] /\ at[0] = 0
  /\ Len(E) = at[Len(t)] + 1 /\ E[Len(E)] = 0
  /\ \A i \in 1..Len(t) :
       /\ at[i] = at[i - 1] + 1 + Len(t[i]) /\ at[i] < Len(E)
       /\ 1 <= Len(t[i]) /\ Len(t[i]) <= 63
       /\ E[at[i - 1] + 1] = Len(t[i])
       /\ \A j \in Nat : 1 <= j /\ j <= Len(t[i]) => E[at[i - 1] + 1 + j] = t[i][j]

(* The labels of a name that is sent. *)
LabelsOf(name) == IF IsRoot(name) THEN <<>> ELSE Trimmed(name)

(* Trimmed takes away a last empty label, and nothing else.                *)
LEMMA TrimmedIs ==
  ASSUME NEW name \in Seq(Seq(Nat)), name # <<>>
  PROVE  /\ Trimmed(name) \in Seq(Seq(Nat)) /\ Trimmed(name) # <<>>
         /\ name = Trimmed(name) \/ name = Append(Trimmed(name), <<>>)
         /\ Len(Trimmed(name)) <= Len(name) /\ Len(name) <= Len(Trimmed(name)) + 1
         /\ \A i \in 1..Len(Trimmed(name)) : i \in 1..Len(name) /\ Trimmed(name)[i] = name[i]
         /\ Trimmed(name) = name /\ Len(name) > 1 => name[Len(name)] # <<>>
         /\ Trimmed(name) # name => Len(Trimmed(name)) < Len(name)
<1>1. CASE Len(name) > 1 /\ Last(name) = <<>>
  <2> DEFINE t == SubSeq(name, 1, Len(name) - 1)
  <2>1. Trimmed(name) = t /\ name[Len(name)] = <<>>
    BY <1>1 DEF Trimmed, Last, Front
  <2>2. /\ t \in Seq(Seq(Nat)) /\ Len(t) = Len(name) - 1 /\ Len(name) \in Nat
        /\ \A i \in 1..Len(t) : t[i] = name[i]
    BY <1>1
  <2> HIDE DEF t
  <2>3. name = Append(t, <<>>)
    <3> DEFINE u == Append(t, <<>>)
    <3>1. <<>> \in Seq(Nat)
      OBVIOUS
    <3>2. /\ u \in Seq(Seq(Nat)) /\ Len(u) = Len(name)
          /\ \A i \in 1..Len(t) : u[i] = t[i]
          /\ u[Len(name)] = <<>>
      BY <2>2, <3>1
    <3> HIDE DEF u
    <3>3. ASSUME NEW i \in Nat, 1 <= i, i <= Len(name) PROVE u[i] = name[i]
      <4>1. CASE i = Len(name)
        BY <2>1, <3>2, <4>1
      <4>2. CASE i # Len(name)
        <5>1. i \in 1..Len(t)
          BY <2>2, <3>3, <4>2
        <5> QED
          BY <2>2, <3>2, <5>1
      <4> QED
        BY <4>1, <4>2
    <3> QED
      BY <3>2, <3>3, SameSequence DEF u
  <2>4. t # <<>>
    BY <1>1, <2>2
  <2>5. t # name
    BY <2>2
  <2>6. \A i \in 1..Len(t) : i \in 1..Len(name)
    BY <2>2
  <2> QED
    BY <2>1, <2>2, <2>3, <2>4, <2>5, <2>6
<1>2. CASE ~ (Len(name) > 1 /\ Last(name) = <<>>)
  <2>1. Trimmed(name) = name
    BY <1>2 DEF Trimmed
  <2>2. Len(name) > 1 => name[Len(name)] # <<>>
    BY <1>2 DEF Last
  <2> QED
    BY <2>1, <2>2
<1> QED
  BY <1>1, <1>2

(* A name that encodeName accepts is written as its labels and the root.   *)
LEMMA NameIsWritten ==
  ASSUME NEW name \in Seq(Seq(Nat)), name # <<>>, Encodes(name)
  PROVE  /\ LabelsOf(name) \in Seq(Seq(Nat))
         /\ \E at : IsWritten(LabelsOf(name), EncodeName(name), at)
<1> DEFINE t == LabelsOf(name)
           E == EncodeName(name)
<1>1. CASE IsRoot(name)
  <2>1. t = <<>> /\ E = <<0>>
    BY <1>1 DEF LabelsOf, EncodeName
  <2> HIDE DEF t, E
  <2> DEFINE at == [i \in 0..0 |-> 0]
  <2>2. Len(t) = 0 /\ E \in Seq(Nat) /\ Len(E) = 1 /\ E[1] = 0
    BY <2>1
  <2>3. at \in [0..Len(t) -> Nat] /\ at[0] = 0 /\ at[Len(t)] = 0
    BY <2>2
  <2> HIDE DEF at
  <2>4. IsWritten(t, E, at)
    BY <2>2, <2>3 DEF IsWritten
  <2>5. t \in Seq(Seq(Nat))
    BY <2>1
  <2> QED
    BY <2>4, <2>5 DEF t, E
<1>2. CASE ~ IsRoot(name)
  <2>1. t = Trimmed(name)
    BY <1>2 DEF LabelsOf
  <2>2. t \in Seq(Seq(Nat))
    BY <2>1, TrimmedIs
  <2>3. ASSUME NEW i \in 1..Len(t) PROVE 1 <= Len(t[i]) /\ Len(t[i]) <= 63
    <3>1. Len(t[i]) \in 1..63
      BY <1>2, <2>1 DEF Encodes
    <3>2. \A n_2 \in 1..63 : 1 <= n_2 /\ n_2 <= 63
      BY SMT
    <3> QED
      BY <3>1, <3>2
  <2> DEFINE s == [i \in 1..Len(t) |-> <<Len(t[i])>> \o t[i]]
  <2>4. E = FlattenSeq(s) \o <<0>>
    BY <1>2, <2>1 DEF EncodeName
  <2> HIDE DEF t, E
  <2>5. ASSUME NEW i \in 1..Len(t)
        PROVE  /\ t[i] \in Seq(Nat) /\ Len(t[i]) \in Nat /\ s[i] \in Seq(Nat) /\ Len(s[i]) = 1 + Len(t[i])
               /\ s[i][1] = Len(t[i])
               /\ \A j \in Nat : 1 <= j /\ j <= Len(t[i]) => s[i][1 + j] = t[i][j]
    <3> DEFINE l == t[i]
               d == <<Len(l)>>
    <3>1. l \in Seq(Nat) /\ Len(l) \in Nat
      BY <2>2
    <3>2. d \in Seq(Nat) /\ Len(d) = 1 /\ d[1] = Len(l)
      BY <3>1
    <3>3. s[i] = d \o l
      OBVIOUS
    <3> HIDE DEF l, d
    <3> DEFINE c == s[i]
    <3>4. c = d \o l
      BY <3>3
    <3> HIDE DEF c, s
    <3>5. c \in Seq(Nat) /\ IsJoin(d, l, c)
      BY <3>1, <3>2, <3>4, Join
    <3>6. /\ Len(c) = 1 + Len(l)
          /\ \A j \in Nat : 1 <= j /\ j <= 1 => c[j] = d[j]
          /\ \A j \in Nat : 1 < j /\ j <= 1 + Len(l) => c[j] = l[j - 1]
      BY <3>2, <3>5 DEF IsJoin
    <3>7. c[1] = Len(l)
      BY <3>2, <3>6
    <3>8. ASSUME NEW j \in Nat, 1 <= j, j <= Len(l) PROVE c[1 + j] = l[j]
      <4>1. 1 + j \in Nat /\ 1 < 1 + j /\ 1 + j <= 1 + Len(l) /\ (1 + j) - 1 = j
        BY <3>1, <3>8
      <4> QED
        BY <3>6, <4>1
    <3> QED
      BY <3>1, <3>5, <3>6, <3>7, <3>8 DEF c, l
  <2>6. s \in Seq(Seq(Nat)) /\ Len(s) = Len(t)
    BY <2>2, <2>5
  <2> HIDE DEF s
  <2>7. PICK g : IsFlat(Nat, s, g) /\ FlattenSeq(s) = g[Len(s)]
    BY <2>6, FlattenIs
  <2> DEFINE K == Len(t)
             at == [i \in 0..K |-> Len(g[i])]
             G == g[K]
  <2>8. g \in [0..K -> Seq(Nat)] /\ g[0] = <<>> /\ K \in Nat
    BY <2>2, <2>6, <2>7 DEF IsFlat
  <2>9. at \in [0..K -> Nat] /\ at[0] = 0 /\ at[K] = Len(G) /\ G \in Seq(Nat)
    <3>1. 0 \in 0..K /\ K \in 0..K
      BY <2>8
    <3>2. \A i \in 0..K : g[i] \in Seq(Nat)
      BY <2>8
    <3> HIDE DEF K
    <3> QED
      BY <2>8, <3>1, <3>2
  <2>10. E = G \o <<0>>
    BY <2>4, <2>6, <2>7
  <2>11. \A i \in 0..K : at[i] = Len(g[i])
    OBVIOUS
  <2> HIDE DEF K, at, G
  <2>12. /\ E \in Seq(Nat) /\ Len(E) = at[K] + 1 /\ E[Len(E)] = 0
         /\ \A j \in Nat : 1 <= j /\ j <= at[K] => E[j] = G[j]
    <3> DEFINE z == <<0>>
    <3>1. z \in Seq(Nat) /\ Len(z) = 1 /\ z[1] = 0
      OBVIOUS
    <3>2. E = G \o z
      BY <2>10
    <3> HIDE DEF z
    <3>3. E \in Seq(Nat) /\ IsJoin(G, z, E)
      BY <2>9, <3>1, <3>2, Join
    <3>4. /\ Len(G) \in Nat /\ Len(E) = Len(G) + 1
          /\ \A j \in Nat : 1 <= j /\ j <= Len(G) => E[j] = G[j]
          /\ \A j \in Nat : Len(G) < j /\ j <= Len(G) + 1 => E[j] = z[j - Len(G)]
      BY <3>1, <3>3 DEF IsJoin
    <3>5. E[Len(G) + 1] = z[1]
      <4> DEFINE k == Len(G) + 1
      <4>1. k \in Nat /\ Len(G) < k /\ k <= Len(G) + 1 /\ k - Len(G) = 1
        BY <3>4
      <4> HIDE DEF k
      <4>2. E[k] = z[k - Len(G)]
        BY <3>4, <4>1
      <4>3. E[k] = z[1]
        BY <4>1, <4>2
      <4> QED
        BY <4>3 DEF k
    <3> QED
      BY <2>9, <3>1, <3>3, <3>4, <3>5
  <2>13. ASSUME NEW i \in 1..K
         PROVE  /\ at[i] = at[i - 1] + 1 + Len(t[i]) /\ at[i] < Len(E)
                /\ 1 <= Len(t[i]) /\ Len(t[i]) <= 63
                /\ E[at[i - 1] + 1] = Len(t[i])
                /\ \A j \in Nat : 1 <= j /\ j <= Len(t[i]) => E[at[i - 1] + 1 + j] = t[i][j]
    <3>1. i \in 1..Len(s) /\ i \in 0..K /\ i - 1 \in 0..K /\ K \in 0..K
      BY <2>6, <2>8 DEF K
    <3>2. /\ Len(g[i]) = Len(g[i - 1]) + Len(s[i]) /\ Len(g[i]) <= Len(g[Len(s)])
          /\ \A j \in Nat : 1 <= j /\ j <= Len(s[i]) => g[Len(s)][Len(g[i - 1]) + j] = s[i][j]
      <4>1. IsPiece(g, s, i)
        BY <2>6, <2>7, <3>1, FlatLayout
      <4> QED
        BY <4>1 DEF IsPiece
    <3>3. /\ at[i] = Len(g[i]) /\ at[i - 1] = Len(g[i - 1]) /\ g[Len(s)] = G
          /\ at[i] \in Nat /\ at[i - 1] \in Nat /\ at[K] \in Nat
      BY <2>6, <2>9, <2>11, <3>1 DEF K, G
    <3>4. /\ Len(t[i]) \in Nat /\ Len(s[i]) = 1 + Len(t[i]) /\ s[i][1] = Len(t[i])
          /\ \A j \in Nat : 1 <= j /\ j <= Len(t[i]) => s[i][1 + j] = t[i][j]
      BY <2>5 DEF K
    <3> DEFINE from == at[i - 1]
               L == Len(t[i])
    <3>5. /\ at[i] = from + (1 + L) /\ at[i] <= at[K]
          /\ \A j \in Nat : 1 <= j /\ j <= 1 + L => G[from + j] = s[i][j]
      BY <2>9, <3>2, <3>3, <3>4
    <3>6. from \in Nat /\ L \in Nat
      BY <3>3, <3>4
    <3>7. 1 <= L /\ L <= 63
      BY <2>3 DEF K
    <3>8. /\ s[i][1] = L
          /\ \A j \in Nat : 1 <= j /\ j <= L => s[i][1 + j] = t[i][j]
      BY <3>4
    <3>0. at[i] \in Nat /\ at[K] \in Nat
      BY <3>3
    <3> HIDE DEF from, L
    <3>9. at[i] = from + 1 + L /\ at[i] < Len(E)
      BY <2>12, <3>0, <3>5, <3>6
    <3>10. E[from + 1] = L
      <4>1. from + 1 \in Nat /\ 1 <= from + 1 /\ from + 1 <= at[K]
        BY <3>0, <3>5, <3>6
      <4>2. G[from + 1] = s[i][1]
        <5>1. 1 \in Nat /\ 1 <= 1 /\ 1 <= 1 + L
          BY <3>6
        <5> QED
          BY <3>5, <5>1
      <4> QED
        BY <2>12, <3>8, <4>1, <4>2
    <3>11. ASSUME NEW j \in Nat, 1 <= j, j <= L PROVE E[from + 1 + j] = t[i][j]
      <4>1. /\ from + 1 + j \in Nat /\ 1 <= from + 1 + j /\ from + 1 + j <= at[K]
            /\ 1 + j \in Nat /\ 1 <= 1 + j /\ 1 + j <= 1 + L /\ from + (1 + j) = from + 1 + j
        BY <3>0, <3>5, <3>6, <3>11
      <4>2. G[from + (1 + j)] = s[i][1 + j]
        BY <3>5, <4>1
      <4>3. s[i][1 + j] = t[i][j]
        BY <3>8, <3>11
      <4> QED
        BY <2>12, <4>1, <4>2, <4>3
    <3> QED
      BY <3>7, <3>9, <3>10, <3>11 DEF from, L
  <2>14. IsWritten(t, E, at)
    BY <2>9, <2>12, <2>13 DEF IsWritten, K
  <2> QED
    BY <2>2, <2>14 DEF t, E
<1> QED
  BY <1>1, <1>2

(* E is in b, from byte k on.                                              *)
LiesIn(b, k, E) ==
  k \in Nat /\ k + Len(E) <= Len(b) /\ \A j \in Nat : 1 <= j /\ j <= Len(E) => b[k + j] = E[j]

(* A name that is written in a message can be read there. *)
LEMMA WrittenIsLaid ==
  ASSUME NEW b \in Seq(Nat), NEW t \in Seq(Seq(Nat)), NEW E, NEW at, NEW k,
         IsWritten(t, E, at), LiesIn(b, k, E)
  PROVE  IsLaid(b, t, [i \in 0..Len(t) |-> k + at[i]])
<1> DEFINE K == Len(t)
           to == [i \in 0..K |-> k + at[i]]
<1>1. /\ E \in Seq(Nat) /\ at \in [0..K -> Nat] /\ at[0] = 0
      /\ Len(E) = at[K] + 1 /\ E[Len(E)] = 0
      /\ k \in Nat /\ k + Len(E) <= Len(b) /\ K \in Nat /\ Len(b) \in Nat /\ Len(E) \in Nat
  BY DEF IsWritten, LiesIn
<1>2. ASSUME NEW j \in Nat, 1 <= j, j <= Len(E) PROVE b[k + j] = E[j]
  BY <1>2 DEF LiesIn
<1>3. ASSUME NEW i \in 1..K
      PROVE  /\ at[i] = at[i - 1] + 1 + Len(t[i]) /\ at[i] < Len(E)
             /\ 1 <= Len(t[i]) /\ Len(t[i]) <= 63
             /\ E[at[i - 1] + 1] = Len(t[i])
             /\ \A j \in Nat : 1 <= j /\ j <= Len(t[i]) => E[at[i - 1] + 1 + j] = t[i][j]
  BY DEF IsWritten
<1>4. \A i \in 0..K : to[i] = k + at[i] /\ at[i] \in Nat /\ to[i] \in Nat
  <2>1. \A i \in 0..K : at[i] \in Nat
    BY <1>1
  <2>2. \A i \in 0..K : to[i] = k + at[i]
    OBVIOUS
  <2>3. \A m \in Nat : k + m \in Nat
    BY <1>1
  <2> HIDE DEF to, K
  <2> QED
    BY <2>1, <2>2, <2>3
<1>5. to \in [0..K -> Nat]
  BY <1>4
<1> HIDE DEF to
<1>6. ASSUME NEW i \in 1..K PROVE LabelAt(b, t[i], to[i - 1], to[i])
  <2> DEFINE l == t[i]
             L == Len(l)
             a == at[i - 1]
             pos == to[i - 1]
  <2>1. l \in Seq(Nat) /\ L \in Nat /\ i \in 0..K /\ i - 1 \in 0..K
    BY <1>1
  <2>2. a \in Nat /\ pos = k + a /\ to[i] = k + at[i]
    BY <1>4, <2>1
  <2>3. /\ at[i] = a + 1 + L /\ at[i] < Len(E) /\ 1 <= L /\ L <= 63 /\ E[a + 1] = L
        /\ \A j \in Nat : 1 <= j /\ j <= L => E[a + 1 + j] = l[j]
    BY <1>3
  <2> HIDE DEF l, L, a, pos
  <2>4. to[i] = pos + 1 + L /\ to[i] <= Len(b) /\ to[i] \in Nat /\ pos \in Nat
    BY <1>1, <2>1, <2>2, <2>3
  <2>5. U8(b, pos) = L
    <3>1. a + 1 \in Nat /\ 1 <= a + 1 /\ a + 1 <= Len(E) /\ pos + 1 = k + (a + 1)
      BY <1>1, <2>1, <2>2, <2>3
    <3>2. b[k + (a + 1)] = E[a + 1]
      BY <1>2, <3>1
    <3> QED
      BY <2>3, <3>1, <3>2 DEF U8
  <2> DEFINE c == SubSeq(b, pos + 2, to[i])
  <2>6. Slice(b, pos + 1, to[i]) = c
    <3>1. pos + 1 + 1 = pos + 2 /\ ~ (to[i] > Len(b))
      BY <1>1, <2>4
    <3> QED
      BY <3>1 DEF Slice
  <2>7. /\ c \in Seq(Nat) /\ Len(c) = L
        /\ \A j \in Nat : 1 <= j /\ j <= L => c[j] = b[pos + 2 + j - 1]
    <3>1. pos + 2 \in Nat /\ 1 <= pos + 2 /\ pos + 2 <= to[i] + 1 /\ to[i] + 1 - (pos + 2) = L
      BY <2>1, <2>3, <2>4
    <3> DEFINE m == pos + 2
               e == to[i]
    <3>2. /\ m \in Nat /\ 1 <= m /\ e \in Nat /\ e <= Len(b) /\ m <= e + 1 /\ e + 1 - m = L
          /\ c = SubSeq(b, m, e)
      BY <2>4, <3>1
    <3> HIDE DEF c, m, e
    <3>3. /\ c \in Seq(Nat) /\ Len(c) = e + 1 - m
          /\ \A j \in Nat : 1 <= j /\ j <= e + 1 - m => c[j] = b[m + j - 1]
      BY <3>2, Part
    <3> QED
      BY <3>2, <3>3 DEF m
  <2> HIDE DEF c
  <2>8. ASSUME NEW j \in Nat, 1 <= j, j <= L PROVE c[j] = l[j]
    <3>1. /\ a + 1 + j \in Nat /\ 1 <= a + 1 + j /\ a + 1 + j <= Len(E)
          /\ pos + 2 + j - 1 = k + (a + 1 + j)
      BY <1>1, <2>1, <2>2, <2>3, <2>8
    <3>2. b[k + (a + 1 + j)] = E[a + 1 + j]
      BY <1>2, <3>1
    <3> QED
      BY <2>3, <2>7, <2>8, <3>1, <3>2
  <2>9. c = l
    BY <2>1, <2>7, <2>8, SameSequence DEF L
  <2> QED
    BY <2>1, <2>3, <2>4, <2>5, <2>6, <2>9 DEF LabelAt, l, L, pos
<1>7. RootAt(b, to[K])
  <2>1. K \in 0..K
    BY <1>1
  <2>2. to[K] = k + at[K] /\ at[K] \in Nat
    BY <1>4, <2>1
  <2>3. b[k + Len(E)] = E[Len(E)]
    BY <1>1, <1>2, <2>2, SMTT(30)
  <2>4. k + Len(E) = to[K] + 1 /\ to[K] \in Nat
    BY <1>1, <2>2
  <2> QED
    BY <1>1, <2>3, <2>4 DEF RootAt, U8
<1>8. IsLaid(b, t, to)
  BY <1>5, <1>6, <1>7 DEF IsLaid
<1> QED
  BY <1>8 DEF to

(* The bytes of a query around its name E. *)
DoBit(q) == IF q.dnssecOk THEN 1 ELSE 0

(* The bytes of a query: header, name E, type and class, and the OPT       *)
(* record.                                                                 *)
IsQuery(q, E, b) ==
  /\ b \in Seq(Nat) /\ Len(b) = 12 + Len(E) + 4 + 11 * DoBit(q)
  /\ b[5] = 0 /\ b[6] = 1 /\ b[7] = 0 /\ b[8] = 0 /\ b[11] = 0 /\ b[12] = DoBit(q)
  /\ LiesIn(b, 12, E)
  /\ b[12 + Len(E) + 1] = q.type \div 256 /\ b[12 + Len(E) + 2] = q.type % 256

LEMMA QueryBytes ==
  ASSUME NEW q, q.type \in Nat, q.dnssecOk \in BOOLEAN, EncodeName(q.name) \in Seq(Nat)
  PROVE  IsQuery(q, EncodeName(q.name), EncodeQuery(q))
<1> DEFINE E == EncodeName(q.name)
           d == DoBit(q)
           h == <<0, 0, 1, 0, 0, 1, 0, 0, 0, 0, 0, d>>
           x == q.type \div 256
           y == q.type % 256
           u == <<x, y, 0, 1>>
           o == IF q.dnssecOk THEN <<0, 0, 41, 16, 0, 0, 0, 128, 0, 0, 0>> ELSE <<>>
           he == h \o E
           heu == he \o u
           b == heu \o o
<1>1. EncodeQuery(q) = b
  BY DEF EncodeQuery, DoBit
<1>2. d \in Nat /\ x \in Nat /\ y \in Nat
  BY DEF DoBit
<1>3. E \in Seq(Nat) /\ Len(E) \in Nat
  OBVIOUS
<1> HIDE DEF E, d, x, y
<1>4. /\ h \in Seq(Nat) /\ Len(h) = 12
      /\ h[5] = 0 /\ h[6] = 1 /\ h[7] = 0 /\ h[8] = 0 /\ h[11] = 0 /\ h[12] = d
  BY <1>2
<1>5. u \in Seq(Nat) /\ Len(u) = 4 /\ u[1] = x /\ u[2] = y
  BY <1>2
<1>6. o \in Seq(Nat) /\ Len(o) = 11 * d
  <2>1. CASE q.dnssecOk
    BY <2>1 DEF d, DoBit
  <2>2. CASE ~ q.dnssecOk
    BY <2>2 DEF d, DoBit
  <2> QED
    BY <2>1, <2>2
<1> HIDE DEF h, u, o
<1>7. he \in Seq(Nat) /\ IsJoin(h, E, he)
  BY <1>3, <1>4, Join
<1> HIDE DEF he
<1>8. heu \in Seq(Nat) /\ IsJoin(he, u, heu)
  BY <1>5, <1>7, Join
<1> HIDE DEF heu
<1>9. b \in Seq(Nat) /\ IsJoin(heu, o, b)
  BY <1>6, <1>8, Join
<1> HIDE DEF b
<1> DEFINE L == Len(E)
<1>10. Len(he) = 12 + L /\ Len(heu) = 16 + L /\ Len(b) = 16 + L + 11 * d /\ L \in Nat
  BY <1>2, <1>3, <1>4, <1>5, <1>6, <1>7, <1>8, <1>9 DEF IsJoin
<1> HIDE DEF L
<1>11. ASSUME NEW i \in Nat, 1 <= i, i <= 16 + L PROVE b[i] = heu[i]
  BY <1>9, <1>10, <1>11 DEF IsJoin
<1>12. ASSUME NEW i \in Nat, 1 <= i, i <= 12 + L PROVE b[i] = he[i]
  BY <1>8, <1>10, <1>11, <1>12 DEF IsJoin
<1>13. ASSUME NEW i \in Nat, 1 <= i, i <= 12 PROVE b[i] = h[i]
  BY <1>4, <1>7, <1>10, <1>12, <1>13 DEF IsJoin
<1>14. ASSUME NEW j \in Nat, 1 <= j, j <= L PROVE b[12 + j] = E[j]
  <2>1. 12 + j \in Nat /\ 12 < 12 + j /\ 12 + j <= 12 + L /\ (12 + j) - 12 = j /\ 1 <= 12 + j
    BY <1>10, <1>14
  <2>2. he[12 + j] = E[j]
    BY <1>4, <1>7, <2>1, ZenonT(30) DEF IsJoin, L
  <2> QED
    BY <1>12, <2>1, <2>2
<1>15. ASSUME NEW j \in Nat, 1 <= j, j <= 4 PROVE b[12 + L + j] = u[j]
  <2> DEFINE i == 12 + L + j
  <2>1. i \in Nat /\ Len(he) < i /\ i <= Len(he) + Len(u) /\ i - Len(he) = j /\ 1 <= i /\ i <= 16 + L
    BY <1>5, <1>10, <1>15
  <2> HIDE DEF i
  <2>2. heu[i] = u[i - Len(he)]
    BY <1>8, <2>1 DEF IsJoin
  <2>3. b[i] = u[j]
    BY <1>11, <2>1, <2>2
  <2> QED
    BY <2>3 DEF i
<1>16. LiesIn(b, 12, E)
  BY <1>2, <1>10, <1>14 DEF LiesIn, L
<1>17. b[5] = 0 /\ b[6] = 1 /\ b[7] = 0 /\ b[8] = 0 /\ b[11] = 0 /\ b[12] = d
  BY <1>4, <1>13
<1>18. b[12 + L + 1] = x /\ b[12 + L + 2] = y
  BY <1>5, <1>15
<1>19. Len(b) = 12 + L + 4 + 11 * d
  BY <1>2, <1>10
<1>20. IsQuery(q, E, b)
  BY <1>9, <1>16, <1>17, <1>18, <1>19 DEF IsQuery, L, x, y, d
<1> QED
  BY <1>1, <1>20 DEF E

(* What the property says of a query that was sent, and of one refused. *)
SentIsRead(q, b) ==
  LET name == ReadLabels(b, 12)
      AsName == IF name.value = <<>> THEN <<<<>>>> ELSE name.value
  IN  /\ Len(q.name) < Rounds => name.ok
      /\ Len(q.name) > Rounds => ~ name.ok
      /\ name.ok =>
           /\ q.name \in {AsName, Append(AsName, <<>>)}
           /\ U16(b, name.next) = q.type
           /\ Len(b) = name.next + 4 + 11 * U16(b, 10)
      /\ U16(b, 4) = 1 /\ U16(b, 6) = 0
      /\ U16(b, 10) = 1 <=> q.dnssecOk

(* What QueryIsReadBack says of a query that is refused.                   *)
RefusedForALabel(q) ==
  \E i \in 1..Len(q.name) :
    Len(q.name[i]) > 63 \/ (q.name[i] = <<>> /\ i < Len(q.name))

LEMMA QueryIs ==
  ASSUME NEW q \in Queries
  PROVE  /\ q.name \in Seq(Seq(Nat)) /\ q.name # <<>>
         /\ q.type \in Nat /\ q.dnssecOk \in BOOLEAN
<1> DEFINE N == Seq(Seq(Nat)) \ {<<>>}
<1>1. q \in [name : N, type : Nat, dnssecOk : BOOLEAN]
  BY WireAssumption
<1> HIDE DEF N
<1>2. q.name \in N /\ q.type \in Nat /\ q.dnssecOk \in BOOLEAN
  BY <1>1
<1> QED
  BY <1>2 DEF N

(* Split and put together again: a number and its two bytes. *)
LEMMA TwoBytes ==
  ASSUME NEW x \in Nat
  PROVE  (x \div 256) * 256 + (x % 256) = x
OBVIOUS

(* A query that is sent has its name, type and flag read back.             *)
LEMMA SentQueryIsRead ==
  ASSUME NEW q \in Queries, Encodes(q.name)
  PROVE  SentIsRead(q, EncodeQuery(q))
<1> DEFINE name == q.name
           t == LabelsOf(name)
           E == EncodeName(name)
           b == EncodeQuery(q)
           r == ReadLabels(b, 12)
           AsName == IF r.value = <<>> THEN <<<<>>>> ELSE r.value
<1>1. name \in Seq(Seq(Nat)) /\ name # <<>> /\ q.type \in Nat /\ q.dnssecOk \in BOOLEAN
  BY QueryIs
<1>2. t \in Seq(Seq(Nat)) /\ \E at : IsWritten(t, E, at)
  BY <1>1, NameIsWritten
<1>3. PICK at : IsWritten(t, E, at)
  BY <1>2
<1>4. /\ E \in Seq(Nat) /\ at \in [0..Len(t) -> Nat] /\ at[0] = 0
      /\ Len(E) = at[Len(t)] + 1 /\ Len(t) \in Nat
  BY <1>2, <1>3 DEF IsWritten
<1>5. IsQuery(q, E, b)
  BY <1>1, <1>4, QueryBytes
<1>6. b \in Seq(Nat) /\ LiesIn(b, 12, E)
  BY <1>5 DEF IsQuery
<1> DEFINE to == [i \in 0..Len(t) |-> 12 + at[i]]
<1>7. IsLaid(b, t, to)
  <2> HIDE DEF t, E, b
  <2> QED
    BY <1>2, <1>3, <1>6, WrittenIsLaid
<1>8. to[0] = 12 /\ to[Len(t)] + 1 = 12 + Len(E)
  <2>1. 0 \in 0..Len(t) /\ Len(t) \in 0..Len(t)
    BY <1>4
  <2>2. to[0] = 12 + at[0] /\ to[Len(t)] = 12 + at[Len(t)] /\ at[Len(t)] \in Nat
    BY <1>4, <2>1
  <2> HIDE DEF t, E, to
  <2> QED
    BY <1>4, <2>2
<1> HIDE DEF to, t, E, b
<1>9. /\ Len(t) < Rounds => r = Read(t, 12 + Len(E))
      /\ Len(t) >= Rounds => ~ r.ok
  <2>1. /\ Len(t) < Rounds => ReadLabels(b, to[0]) = Read(t, to[Len(t)] + 1)
        /\ Len(t) >= Rounds => ~ ReadLabels(b, to[0]).ok
    BY <1>2, <1>6, <1>7, NameIsRead
  <2> QED
    BY <1>8, <2>1
<1> HIDE DEF r
<1>10. Rounds \in Nat /\ Rounds > 1 /\ Len(name) \in Nat /\ Len(t) \in Nat
  BY <1>1, <1>4, WireAssumption
(* The name that was asked for and its labels. *)
<1>11. /\ Len(t) <= Len(name) /\ (Len(name) <= Len(t) + 1 \/ Len(name) <= 2)
       /\ name \in {IF t = <<>> THEN <<<<>>>> ELSE t, Append(IF t = <<>> THEN <<<<>>>> ELSE t, <<>>)}
  <2> DEFINE m == Trimmed(name)
  <2>1. /\ m # <<>> /\ (name = m \/ name = Append(m, <<>>)) /\ m \in Seq(Seq(Nat))
        /\ Len(m) <= Len(name) /\ Len(name) <= Len(m) + 1
    BY <1>1, TrimmedIs
  <2>2. /\ t = <<>> => m = <<<<>>>>
        /\ t # <<>> => m = t
    BY <2>1 DEF t, LabelsOf, IsRoot
  <2>3. m = IF t = <<>> THEN <<<<>>>> ELSE t
    BY <2>2
  <2>4. name \in {IF t = <<>> THEN <<<<>>>> ELSE t, Append(IF t = <<>> THEN <<<<>>>> ELSE t, <<>>)}
    BY <2>1, <2>3
  <2>5. CASE t = <<>>
    <3>1. Len(t) = 0 /\ Len(m) = 1
      BY <2>2, <2>5
    <3> QED
      BY <1>10, <2>1, <2>4, <3>1
  <2>6. CASE t # <<>>
    BY <2>1, <2>2, <2>4, <2>6
  <2> QED
    BY <2>5, <2>6
<1>12. Len(name) < Rounds => r.ok
  BY <1>9, <1>10, <1>11 DEF Read
<1>13. Len(name) > Rounds => ~ r.ok
  BY <1>9, <1>10, <1>11
<1>14. U16(b, 4) = 1 /\ U16(b, 6) = 0 /\ U16(b, 10) = DoBit(q)
  <2>1. b[5] = 0 /\ b[6] = 1 /\ b[7] = 0 /\ b[8] = 0 /\ b[11] = 0 /\ b[12] = DoBit(q)
    BY <1>5 DEF IsQuery
  <2>2. DoBit(q) \in Nat
    BY DEF DoBit
  <2> QED
    BY <2>1, <2>2 DEF U16, U8
<1>15. U16(b, 10) = 1 <=> q.dnssecOk
  BY <1>1, <1>14 DEF DoBit
<1>16. ASSUME r.ok
       PROVE  /\ name \in {AsName, Append(AsName, <<>>)}
              /\ U16(b, r.next) = q.type
              /\ Len(b) = r.next + 4 + 11 * U16(b, 10)
  <2>1. r = Read(t, 12 + Len(E))
    BY <1>9, <1>10, <1>16
  <2>2. r.value = t /\ r.next = 12 + Len(E)
    BY <2>1 DEF Read
  <2>3. AsName = IF t = <<>> THEN <<<<>>>> ELSE t
    BY <2>2
  <2>4. name \in {AsName, Append(AsName, <<>>)}
    BY <1>11, <2>3
  <2>5. /\ b[12 + Len(E) + 1] = q.type \div 256 /\ b[12 + Len(E) + 2] = q.type % 256
        /\ Len(b) = 12 + Len(E) + 4 + 11 * DoBit(q)
    BY <1>5 DEF IsQuery
  <2>6. U16(b, r.next) = q.type
    <3>1. Len(E) \in Nat
      BY <1>4
    <3>2. 12 + Len(E) + 1 + 1 = 12 + Len(E) + 2
      BY <3>1
    <3>3. U16(b, 12 + Len(E)) = b[12 + Len(E) + 1] * 256 + b[12 + Len(E) + 1 + 1]
      BY DEF U16, U8
    <3>4. U16(b, 12 + Len(E)) = (q.type \div 256) * 256 + (q.type % 256)
      BY <2>5, <3>2, <3>3
    <3> QED
      BY <1>1, <2>2, <3>4, TwoBytes
  <2>7. Len(b) = r.next + 4 + 11 * U16(b, 10)
    BY <1>14, <2>2, <2>5
  <2> QED
    BY <2>4, <2>6, <2>7
<1>17. SentIsRead(q, b)
  <2> HIDE DEF AsName, name
  <2>1. /\ Len(name) < Rounds => r.ok
        /\ Len(name) > Rounds => ~ r.ok
        /\ r.ok => /\ name \in {AsName, Append(AsName, <<>>)}
                   /\ U16(b, r.next) = q.type
                   /\ Len(b) = r.next + 4 + 11 * U16(b, 10)
        /\ U16(b, 4) = 1 /\ U16(b, 6) = 0
        /\ U16(b, 10) = 1 <=> q.dnssecOk
    BY <1>12, <1>13, <1>14, <1>15, <1>16
  <2> QED
    BY <2>1 DEF SentIsRead, r, AsName, name
<1> QED
  BY <1>17 DEF b

(* A query that is refused has a label too long, or empty before the last. *)
LEMMA RefusedQueryHasABadLabel ==
  ASSUME NEW q \in Queries, ~ Encodes(q.name)
  PROVE  RefusedForALabel(q)
<1> DEFINE name == q.name
           t == Trimmed(name)
<1>1. name \in Seq(Seq(Nat)) /\ name # <<>>
  BY QueryIs
<1>2. ~ (t = <<<<>>>>) /\ \E i \in 1..Len(t) : ~ (Len(t[i]) \in 1..63)
  BY DEF Encodes, IsRoot
<1>3. /\ t \in Seq(Seq(Nat))
      /\ \A i \in 1..Len(t) : i \in 1..Len(name) /\ t[i] = name[i]
      /\ t = name /\ Len(name) > 1 => name[Len(name)] # <<>>
      /\ t # name => Len(t) < Len(name)
  BY <1>1, TrimmedIs
<1> HIDE DEF t
<1>4. PICK i \in 1..Len(t) : ~ (Len(t[i]) \in 1..63)
  BY <1>2
<1>5. i \in 1..Len(name) /\ t[i] = name[i] /\ name[i] \in Seq(Nat) /\ Len(name[i]) \in Nat
  BY <1>1, <1>3, SMTT(30)
<1>6. Len(name[i]) > 63 \/ Len(name[i]) = 0
  <2>1. \A k \in Nat : k > 63 \/ k = 0 \/ k \in 1..63
    BY SMT
  <2> QED
    BY <1>4, <1>5, <2>1
<1>7. CASE Len(name[i]) > 63
  BY <1>5, <1>7 DEF RefusedForALabel
<1>8. CASE Len(name[i]) = 0
  <2>1. name[i] = <<>>
    BY <1>5, <1>8
  <2>2. i < Len(name)
    <3>1. CASE t # name
      BY <1>1, <1>3, <3>1
    <3>2. CASE t = name
      <4>1. i # Len(name)
        <5>1. CASE Len(name) > 1
          BY <1>3, <2>1, <3>2, <5>1
        <5>2. CASE ~ (Len(name) > 1)
          <6>0. Len(name) \in Nat /\ Len(name) # 0
            BY <1>1
          <6>1. Len(name) = 1
            <7>1. \A k \in Nat : k = 0 \/ k = 1 \/ k > 1
              OBVIOUS
            <7> QED
              BY <5>2, <6>0, <7>1
          <6>2. name = <<name[1]>>
            BY <1>1, <6>1
          <6> QED
            BY <1>2, <1>5, <2>1, <3>2, <6>1, <6>2
        <5> QED
          BY <5>1, <5>2
      <4> QED
        BY <1>5, <4>1
    <3> QED
      BY <3>1, <3>2
  <2> QED
    BY <1>5, <2>1, <2>2 DEF RefusedForALabel
<1> QED
  BY <1>6, <1>7, <1>8

(* Whatever encodeQuery sends, readName reads the name, the type and the   *)
(* DNSSEC flag out of it, if the name has fewer labels than readName has   *)
(* rounds; what it refuses has a label that is too long or empty           *)
(* (wire.ts:171, 200).                                                     *)
THEOREM QueriesAreReadBack == PureSpec => []QueryIsReadBack
<1> DEFINE Read1 == stage = "fulfilled" => SentIsRead(message.meant, message.bytes)
           Bad == stage = "thrown" => RefusedForALabel(message.meant)
           SentOrRefused == message.sort = "query" => Read1 /\ Bad /\ stage \in {"fulfilled", "thrown"}
<1>1. PureInit => SentOrRefused
  BY DEF PureInit, WireInit
<1>2. SentOrRefused /\ [PureNext]_pureVars => SentOrRefused'
  <2> SUFFICES ASSUME SentOrRefused, [PureNext]_pureVars PROVE SentOrRefused'
    OBVIOUS
  <2>1. CASE UNCHANGED wireVars
    BY <2>1 DEF wireVars
  <2>2. CASE WireNext
    <3>1. ASSUME NEW m \in Inputs, ReadHeader(m) PROVE SentOrRefused'
      <4>1. message'.sort # "query"
        BY <3>1, WireAssumption DEF ReadHeader, Sorts
      <4> QED
        BY <4>1
    <3>2. ASSUME NEW q \in Queries, Encode(q) PROVE SentOrRefused'
      <4>1. CASE Encodes(q.name)
        <5>1. /\ message' = [sort |-> "query", bytes |-> EncodeQuery(q), meant |-> q]
              /\ stage' = "fulfilled"
          BY <3>2, <4>1 DEF Encode
        <5>2. message'.meant = q /\ message'.bytes = EncodeQuery(q)
          BY <5>1
        <5>3. SentIsRead(q, EncodeQuery(q))
          BY <4>1, SentQueryIsRead
        <5>4. SentIsRead(message'.meant, message'.bytes)
          BY <5>2, <5>3
        <5> QED
          BY <5>1, <5>4 DEF SentIsRead
      <4>2. CASE ~ Encodes(q.name)
        <5>1. message'.meant = q /\ stage' = "thrown"
          BY <3>2, <4>2 DEF Encode
        <5>2. RefusedForALabel(message'.meant)
          BY <4>2, <5>1, RefusedQueryHasABadLabel
        <5> QED
          BY <5>1, <5>2 DEF RefusedForALabel
      <4> QED
        BY <4>1, <4>2
    <3>3. CASE SkipQuestion \/ QuestionsDone \/ DecodeAnswer \/ ReturnMessage \/ ThrowOut
      <4>1. message' = message /\ stage \in {"questions", "answers"}
        BY <3>3 DEF SkipQuestion, QuestionsDone, DecodeAnswer, ReturnMessage, ThrowOut
      <4> QED
        BY <4>1
    <3> QED
      BY <2>2, <3>1, <3>2, <3>3 DEF WireNext
  <2> QED
    BY <2>1, <2>2 DEF PureNext, pureVars
<1>3. SentOrRefused => QueryIsReadBack
  BY DEF QueryIsReadBack, SentIsRead, RefusedForALabel
<1> QED
  BY <1>1, <1>2, <1>3, PTL DEF PureSpec

-----------------------------------------------------------------------------
(* Names that end, and names that do not *)

(* Where a name leads from `at`, step by step. *)
IsPath(b, at, N, p) ==
  /\ p \in [0..N -> Nat] /\ p[0] = at
  /\ \A i \in 1..N : p[i] = Leads(b, p[i - 1])

Octets == 0..255
IsBytes(b) == b \in Seq(Octets)

(* The bytes of a message are naturals, and at most 255.                   *)
LEMMA BytesAre ==
  ASSUME NEW b, IsBytes(b)
  PROVE  /\ b \in Seq(Nat) /\ Len(b) \in Nat
         /\ \A pos \in Nat : pos < Len(b) => U8(b, pos) \in Nat /\ U8(b, pos) <= 255
<1>1. b \in [1..Len(b) -> Octets] /\ Len(b) \in Nat
  BY DEF IsBytes
<1>2. \A x \in Octets : x \in Nat /\ x <= 255
  BY DEF Octets
<1>3. \A i \in 1..Len(b) : b[i] \in Octets
  BY <1>1
<1>4. \A i \in 1..Len(b) : b[i] \in Nat
  BY <1>2, <1>3
<1>5. b \in Seq(Nat)
  BY <1>1, <1>4
<1>6. ASSUME NEW pos \in Nat, pos < Len(b)
      PROVE  U8(b, pos) \in Nat /\ U8(b, pos) <= 255
  <2>1. pos + 1 \in 1..Len(b)
    BY <1>1, <1>6
  <2>2. b[pos + 1] \in Octets
    BY <1>3, <2>1
  <2> QED
    BY <1>2, <2>2 DEF U8
<1> QED
  BY <1>1, <1>5, <1>6

LEMMA LeadsToAPlace ==
  ASSUME NEW b, IsBytes(b), NEW pos \in Nat
  PROVE  Leads(b, pos) \in Nat
<1>0. /\ Len(b) \in Nat
      /\ \A i \in Nat : i < Len(b) => U8(b, i) \in Nat /\ U8(b, i) <= 255
  BY BytesAre
<1>1. CASE pos >= Len(b) \/ U8(b, pos) = 0
  BY <1>1 DEF Leads
<1>2. CASE ~ (pos >= Len(b)) /\ U8(b, pos) # 0
  <2>1. U8(b, pos) \in Nat /\ U8(b, pos) <= 255
    BY <1>0, <1>2
  <2>2. CASE U8(b, pos) < 192
    <3>1. Leads(b, pos) = pos + 1 + U8(b, pos)
      BY <1>2, <2>2 DEF Leads
    <3> QED
      BY <2>1, <3>1
  <2>3. CASE ~ (U8(b, pos) < 192) /\ Has(b, pos, 2)
    <3>1. U8(b, pos + 1) \in Nat /\ U8(b, pos + 1) <= 255
      <4>1. pos + 1 \in Nat /\ pos + 1 < Len(b)
        BY <1>0, <2>3 DEF Has
      <4> QED
        BY <1>0, <4>1
    <3>2. Leads(b, pos) = U16(b, pos) - 192 * 256
      BY <1>2, <2>3 DEF Leads
    <3> QED
      BY <2>1, <2>3, <3>1, <3>2 DEF U16
  <2>4. CASE ~ (U8(b, pos) < 192) /\ ~ Has(b, pos, 2)
    <3>1. Leads(b, pos) = Len(b)
      BY <1>2, <2>4 DEF Leads
    <3> QED
      BY <1>0, <3>1
  <2> QED
    BY <2>2, <2>3, <2>4
<1> QED
  BY <1>1, <1>2

LEMMA PathExists ==
  ASSUME NEW b, IsBytes(b), NEW at \in Nat, NEW N \in Nat
  PROVE  \E p : IsPath(b, at, N, p)
<1> DEFINE S == Nat
           step == [q \in (1..N) \X S |-> Leads(b, q[2])]
<1>1. step \in [(1..N) \X S -> S]
  <2> SUFFICES ASSUME NEW q \in (1..N) \X S PROVE Leads(b, q[2]) \in S
    OBVIOUS
  <2>1. q[2] \in Nat
    OBVIOUS
  <2> QED
    BY <2>1, LeadsToAPlace
<1>2. PICK p \in [0..N -> S] : p[0] = at /\ \A i \in 1..N : p[i] = step[<<i, p[i - 1]>>]
  <2> DEFINE base == at
             K == N
  <2>1. base \in S /\ K \in Nat /\ step \in [(1..K) \X S -> S]
    BY <1>1
  <2> HIDE DEF S, step, base, K
  <2>2. Recursive(S, base, K, step)
    BY <2>1 DEF Recursive
  <2>3. \E g \in [0..K -> S] : g[0] = base /\ \A i \in 1..K : g[i] = step[<<i, g[i - 1]>>]
    BY <2>2, RecursionExists
  <2> QED
    BY <2>3 DEF base, K
<1>3. ASSUME NEW i \in 1..N PROVE p[i] = Leads(b, p[i - 1])
  <2>1. <<i, p[i - 1]>> \in (1..N) \X S
    <3>1. i - 1 \in 0..N
      OBVIOUS
    <3> QED
      BY <1>2, <3>1
  <2> QED
    BY <1>2, <2>1
<1> QED
  BY <1>2, <1>3 DEF IsPath

(* Places where a name ends.                                               *)
AtRoot(b, pos) == pos < Len(b) /\ U8(b, pos) = 0
IsEnd(b, pos) == pos >= Len(b) \/ AtRoot(b, pos)

(* ReachesRoot, of a path that goes at least as far. *)
LEMMA ReachesRootIs ==
  ASSUME NEW b, IsBytes(b), NEW at \in Nat, NEW N \in Nat, NEW p, IsPath(b, at, N, p),
         NEW k \in 0..N
  PROVE  ReachesRoot(b, at, k) <=> AtRoot(b, p[k])
<1> DEFINE Body(P) == [i \in 0..k |-> IF i = 0 THEN at ELSE Leads(b, P[i - 1])]
           P == CHOOSE Place : Place = Body(Place)
           h == [i \in 0..k |-> p[i]]
<1>0. k \in Nat /\ \A i \in 0..k : i \in 0..N
  OBVIOUS
<1>p. p \in [0..N -> Nat] /\ p[0] = at /\ \A i \in 1..N : p[i] = Leads(b, p[i - 1])
  BY DEF IsPath
<1>1. h = Body(h)
  <2> SUFFICES ASSUME NEW i \in 0..k PROVE h[i] = IF i = 0 THEN at ELSE Leads(b, h[i - 1])
    OBVIOUS
  <2>1. CASE i = 0
    BY <1>p, <2>1
  <2>2. CASE i # 0
    <3>1. i - 1 \in 0..k /\ i \in 1..N
      BY <1>0, <2>2
    <3> QED
      BY <1>p, <2>2, <3>1
  <2> QED
    BY <2>1, <2>2
<1>2. P = Body(P)
  BY <1>1
<1>3. ReachesRoot(b, at, k) <=> P[k] < Len(b) /\ U8(b, P[k]) = 0
  BY DEF ReachesRoot
<1> HIDE DEF P
<1>4. \A i \in 0..k : P[i] = IF i = 0 THEN at ELSE Leads(b, P[i - 1])
  BY <1>2
<1> HIDE DEF Body
<1> DEFINE Good == {i \in Nat : P[i] = p[i]}
<1>5. 0 \in Good
  <2>1. 0 \in 0..k
    BY <1>0
  <2> QED
    BY <1>4, <1>p, <2>1
<1>6. ASSUME NEW i \in 1..k, i - 1 \in Good PROVE i \in Good
  <2>1. i \in 0..k /\ i # 0 /\ i \in 1..N
    BY <1>0
  <2>2. P[i] = Leads(b, P[i - 1]) /\ p[i] = Leads(b, p[i - 1])
    BY <1>4, <1>p, <2>1
  <2>3. P[i - 1] = p[i - 1]
    BY <1>6
  <2> QED
    BY <2>1, <2>2, <2>3
<1>7. P[k] = p[k]
  <2> HIDE DEF Good
  <2>1. \A i \in 0..k : i \in Good
    BY <1>0, <1>5, <1>6, Upward
  <2>2. k \in Good
    BY <1>0, <2>1
  <2> QED
    BY <2>2 DEF Good
<1> QED
  BY <1>3, <1>7 DEF AtRoot

(* Where a step changes nothing, the path ends. *)
LEMMA StaysThere ==
  ASSUME NEW b, NEW at, NEW N \in Nat, NEW p, IsPath(b, at, N, p),
         NEW k \in 0..N, IsEnd(b, p[k]), NEW j \in k..N
  PROVE  p[j] = p[k]
<1> DEFINE Good == {i \in Nat : k + i \in 0..N => p[k + i] = p[k]}
<1>1. 0 \in Good
  <2>1. k + 0 = k
    OBVIOUS
  <2> QED
    BY <2>1
<1>2. ASSUME NEW i \in 1..N, i - 1 \in Good PROVE i \in Good
  <2> SUFFICES ASSUME k + i \in 0..N PROVE p[k + i] = p[k]
    OBVIOUS
  <2>1. k + i \in 1..N /\ (k + i) - 1 = k + (i - 1) /\ k + (i - 1) \in 0..N
    OBVIOUS
  <2>2. p[k + i] = Leads(b, p[(k + i) - 1])
    BY <2>1 DEF IsPath
  <2>3. p[(k + i) - 1] = p[k]
    BY <1>2, <2>1
  <2>4. Leads(b, p[k]) = p[k]
    BY DEF Leads, AtRoot, IsEnd
  <2> QED
    BY <2>2, <2>3, <2>4
<1>3. j - k \in 0..N /\ k + (j - k) = j /\ j \in 0..N
  OBVIOUS
<1> HIDE DEF Good
<1>4. j - k \in Good
  BY <1>1, <1>2, <1>3, Upward
<1> QED
  BY <1>3, <1>4 DEF Good

(* Two places that are the same lead to the same places. *)
LEMMA SameAgain ==
  ASSUME NEW b, NEW at, NEW N \in Nat, NEW p, IsPath(b, at, N, p),
         NEW x \in 0..N, NEW y \in 0..N, p[x] = p[y], x < y
  PROVE  \A t \in 0..(N - y) : p[x + t] = p[y + t]
<1> DEFINE M == N - y
           Good == {t \in Nat : t <= M => p[x + t] = p[y + t]}
<1>0. M \in Nat
  OBVIOUS
<1>1. 0 \in Good
  <2>1. x + 0 = x /\ y + 0 = y
    OBVIOUS
  <2> QED
    BY <2>1
<1>2. ASSUME NEW t \in 1..M, t - 1 \in Good PROVE t \in Good
  <2>1. /\ x + t \in 1..N /\ (x + t) - 1 = x + (t - 1)
        /\ y + t \in 1..N /\ (y + t) - 1 = y + (t - 1)
    OBVIOUS
  <2>2. p[x + t] = Leads(b, p[(x + t) - 1]) /\ p[y + t] = Leads(b, p[(y + t) - 1])
    BY <2>1 DEF IsPath
  <2>3. p[x + (t - 1)] = p[y + (t - 1)]
    BY <1>0, <1>2
  <2> QED
    BY <2>1, <2>2, <2>3
<1> HIDE DEF Good
<1>3. \A t \in 0..M : t \in Good
  BY <1>0, <1>1, <1>2, Upward
<1> QED
  BY <1>3 DEF Good

(* A name that comes to the root does so within as many steps as there are *)
(* bytes: before it does, it is never twice at the same byte.              *)
LEMMA RootWithinLength ==
  ASSUME NEW b, IsBytes(b), NEW at, NEW N \in Nat, NEW p, IsPath(b, at, N, p),
         Len(b) <= N, NEW m \in 0..N, AtRoot(b, p[m])
  PROVE  AtRoot(b, p[Len(b)])
<1> DEFINE L == Len(b)
           R == {i \in 0..N : AtRoot(b, p[i])}
<1>1. L \in Nat /\ L \in 0..N
  BY BytesAre
<1>2. PICK k \in R : \A i \in R : k <= i
  <2>1. R \in SUBSET Nat /\ R # {}
    OBVIOUS
  <2> HIDE DEF R
  <2> QED
    BY <2>1, LeastNatural
<1>3. k \in 0..N /\ AtRoot(b, p[k])
  BY <1>2
<1>p. \A i \in 0..N : p[i] \in Nat
  BY DEF IsPath
<1> HIDE DEF L
<1>4. CASE k <= L
  <2>1. L \in k..N
    BY <1>1, <1>3, <1>4
  <2>2. p[L] = p[k]
    <3>1. IsEnd(b, p[k])
      BY <1>3 DEF IsEnd
    <3> QED
      BY <1>3, <2>1, <3>1, StaysThere
  <2> QED
    BY <1>3, <2>2 DEF L
<1>5. CASE ~ (k <= L)
  <2>0. k \in Nat /\ k > L
    BY <1>1, <1>3, <1>5
  <2>1. ASSUME NEW i \in 0..L PROVE p[i] \in 0..(L - 1)
    <3>1. i \in 0..N /\ k \in i..N /\ i < k
      BY <1>1, <1>3, <2>0
    <3>2. CASE p[i] >= L
      <4>1. IsEnd(b, p[i])
        BY <3>2 DEF IsEnd, L
      <4>2. p[k] = p[i]
        BY <3>1, <4>1, StaysThere
      <4> QED
        BY <1>1, <1>3, <1>p, <3>1, <3>2, <4>2 DEF AtRoot, L
    <3> QED
      BY <1>1, <1>p, <3>1, <3>2
  <2> DEFINE f == [i \in 0..L |-> p[i]]
  <2>2. f \in [0..L -> 0..(L - 1)]
    BY <2>1
  <2>3. /\ IsFiniteSet(0..L) /\ Cardinality(0..L) = L + 1
        /\ IsFiniteSet(0..(L - 1)) /\ Cardinality(0..(L - 1)) = L
    <3>1. Cardinality(0..L) = IF 0 > L THEN 0 ELSE L - 0 + 1
      BY <1>1, FS_Interval
    <3>2. Cardinality(0..(L - 1)) = IF 0 > L - 1 THEN 0 ELSE (L - 1) - 0 + 1
      BY <1>1, FS_Interval
    <3>3. IsFiniteSet(0..L) /\ IsFiniteSet(0..(L - 1))
      BY <1>1, FS_Interval
    <3> QED
      BY <1>1, <3>1, <3>2, <3>3
  <2>4. \E x, y \in 0..L : x # y /\ f[x] = f[y]
    <3>1. Cardinality(0..(L - 1)) < Cardinality(0..L)
      BY <1>1, <2>3
    <3> HIDE DEF f
    <3> QED
      BY <2>2, <2>3, <3>1, FS_PigeonHole
  <2>5. \E x, y \in 0..L : x < y /\ p[x] = p[y]
    <3>1. PICK x \in 0..L, y \in 0..L : x # y /\ f[x] = f[y]
      BY <2>4
    <3>2. p[x] = p[y] /\ p[y] = p[x]
      BY <3>1
    <3>3. x < y \/ y < x
      BY <1>1, <3>1
    <3> HIDE DEF f
    <3> QED
      BY <3>2, <3>3
  <2>6. PICK x \in 0..L, y \in 0..L : x < y /\ p[x] = p[y]
    BY <2>5
  <2>7. /\ x \in 0..N /\ y \in 0..N /\ k - y \in 0..(N - y)
        /\ y + (k - y) = k /\ x + (k - y) \in 0..N /\ x + (k - y) < k
    BY <1>1, <1>3, <2>0, <2>6
  <2>8. p[x + (k - y)] = p[y + (k - y)]
    <3>1. \A t \in 0..(N - y) : p[x + t] = p[y + t]
      <4>1. /\ N \in Nat /\ IsPath(b, at, N, p) /\ x \in 0..N /\ y \in 0..N
            /\ p[x] = p[y] /\ x < y
        BY <2>6, <2>7
      <4> QED
        BY ONLY <4>1, SameAgain
    <3> QED
      BY <2>7, <3>1
  <2>9. x + (k - y) \in R
    BY <1>3, <2>7, <2>8
  <2>10. k <= x + (k - y)
    BY <1>2, <2>9
  <2> QED
    BY <2>0, <2>7, <2>10
<1> QED
  BY <1>4, <1>5

-----------------------------------------------------------------------------
(* readName and the path *)

(* One round finds the root, or leaves it to the next, which is where the  *)
(* name leads.                                                             *)
LEMMA RoundOk ==
  ASSUME NEW b, IsBytes(b), NEW pos \in Nat, NEW rest \in [Nat -> LabelReads],
         \A q \in Nat : q >= Len(b) => ~ rest[q].ok
  PROVE  Round(b, pos, rest).ok <=> AtRoot(b, pos) \/ (pos < Len(b) /\ rest[Leads(b, pos)].ok)
<1>0. /\ Len(b) \in Nat
      /\ \A i \in Nat : i < Len(b) => U8(b, i) \in Nat /\ U8(b, i) <= 255
  BY BytesAre
<1>1. CASE ~ (pos < Len(b))
  <2>1. ~ Has(b, pos, 1)
    BY <1>0, <1>1 DEF Has
  <2> QED
    BY <1>1, <2>1 DEF Round, Throws, AtRoot
<1>2. CASE pos < Len(b) /\ U8(b, pos) = 0
  <2>1. Has(b, pos, 1)
    BY <1>0, <1>2 DEF Has
  <2> QED
    BY <1>2, <2>1 DEF Round, Read, AtRoot
<1>3. CASE pos < Len(b) /\ U8(b, pos) # 0
  <2>1. Has(b, pos, 1) /\ ~ AtRoot(b, pos) /\ ~ (pos >= Len(b))
    BY <1>0, <1>3 DEF Has, AtRoot
  <2>2. U8(b, pos) \in Nat /\ U8(b, pos) <= 255
    BY <1>0, <1>3
  <2>3. CASE U8(b, pos) < 192
    <3>1. Leads(b, pos) = pos + 1 + U8(b, pos)
      BY <1>3, <2>1, <2>3 DEF Leads
    <3> DEFINE r == rest[pos + 1 + U8(b, pos)]
               l == <<Slice(b, pos + 1, pos + 1 + U8(b, pos))>>
    <3>2. Round(b, pos, rest) = [r EXCEPT !.value = l \o @]
      BY <1>3, <2>1, <2>3 DEF Round
    <3>3. r \in LabelReads
      BY <2>2
    <3> HIDE DEF r, l
    <3>4. Round(b, pos, rest).ok = r.ok
      BY <3>2, <3>3 DEF LabelReads
    <3> QED
      BY <1>3, <2>1, <3>1, <3>4 DEF r
  <2>4. CASE ~ (U8(b, pos) < 192) /\ ~ Has(b, pos, 2)
    <3>1. Leads(b, pos) = Len(b)
      BY <1>3, <2>1, <2>4 DEF Leads
    <3>2. ~ rest[Leads(b, pos)].ok
      BY <1>0, <3>1
    <3>3. Round(b, pos, rest) = Throws
      BY <1>3, <2>1, <2>4 DEF Round
    <3> QED
      BY <2>1, <3>2, <3>3 DEF Throws
  <2>5. CASE ~ (U8(b, pos) < 192) /\ Has(b, pos, 2)
    <3>1. Leads(b, pos) = U16(b, pos) - 192 * 256
      BY <1>3, <2>1, <2>5 DEF Leads
    <3>2. U8(b, pos + 1) \in Nat /\ U8(b, pos + 1) <= 255
      <4>1. pos + 1 \in Nat /\ pos + 1 < Len(b)
        BY <1>0, <2>5 DEF Has
      <4> QED
        BY <1>0, <4>1
    <3>3. U16(b, pos) % 16384 = U16(b, pos) - 192 * 256 /\ U16(b, pos) % 16384 \in Nat
      <4>1. \A x \in Nat : 49152 <= x /\ x <= 65535 => x % 16384 = x - 49152 /\ x % 16384 \in Nat
        OBVIOUS
      <4>2. U16(b, pos) \in Nat /\ 49152 <= U16(b, pos) /\ U16(b, pos) <= 65535
        BY <2>2, <2>5, <3>2 DEF U16
      <4> QED
        BY <4>1, <4>2
    <3> DEFINE r == rest[U16(b, pos) % 16384]
    <3>4. Round(b, pos, rest) = [r EXCEPT !.next = pos + 2]
      BY <1>3, <2>1, <2>5 DEF Round, Jumped
    <3>5. r \in LabelReads /\ r = rest[Leads(b, pos)]
      BY <3>1, <3>3
    <3> HIDE DEF r
    <3>6. Round(b, pos, rest).ok = r.ok
      BY <3>4, <3>5 DEF LabelReads
    <3> QED
      BY <1>3, <2>1, <3>5, <3>6
  <2> QED
    BY <2>3, <2>4, <2>5
<1> QED
  BY <1>1, <1>2, <1>3

(* With k rounds left, readName comes to the root if it is fewer than k    *)
(* steps away.                                                             *)
LEMMA ReadsTheRoot ==
  ASSUME NEW b, IsBytes(b), NEW F, IsReader(b, F), NEW at, NEW N \in Nat, NEW p,
         IsPath(b, at, N, p), Rounds - 1 <= N
  PROVE  F[Rounds][at].ok <=> AtRoot(b, p[Rounds - 1])
<1> DEFINE Good == {k \in Nat : k >= 1 => \A m \in 0..N : m + k - 1 <= N =>
                      (F[k][p[m]].ok <=> AtRoot(b, p[m + k - 1]))}
<1>0. Rounds \in Nat /\ Rounds > 1 /\ Len(b) \in Nat
  BY WireAssumption, BytesAre
<1>p. /\ \A i \in 0..N : p[i] \in Nat
      /\ p[0] = at
      /\ \A i \in 1..N : p[i] = Leads(b, p[i - 1])
  BY DEF IsPath
<1>f. /\ \A k \in 0..Rounds : F[k] \in [Nat -> LabelReads]
      /\ \A pos \in Nat : ~ F[0][pos].ok
      /\ \A k \in 1..Rounds : \A pos \in Nat : F[k][pos] = Round(b, pos, F[k - 1])
  BY DEF IsReader, OutOfRounds, Throws
<1>1. \A k \in 0..Rounds : \A q \in Nat : q >= Len(b) => ~ F[k][q].ok
  <2> SUFFICES ASSUME NEW k \in 0..Rounds, NEW q \in Nat, q >= Len(b) PROVE ~ F[k][q].ok
    OBVIOUS
  <2>1. CASE k = 0
    BY <1>f, <2>1
  <2>2. CASE k # 0
    <3>1. k \in 1..Rounds
      BY <1>0, <2>2
    <3>2. F[k][q] = Round(b, q, F[k - 1])
      BY <1>f, <3>1
    <3>3. ~ Has(b, q, 1)
      BY <1>0 DEF Has
    <3> QED
      BY <3>2, <3>3 DEF Round, Throws
  <2> QED
    BY <2>1, <2>2
<1>2. 0 \in Good
  OBVIOUS
<1>3. ASSUME NEW k \in 1..Rounds, k - 1 \in Good PROVE k \in Good
  <2> SUFFICES ASSUME NEW m \in 0..N, m + k - 1 <= N
               PROVE  F[k][p[m]].ok <=> AtRoot(b, p[m + k - 1])
    BY <1>0
  <2> DEFINE rest == F[k - 1]
             pos == p[m]
  <2>0. k \in Nat /\ k >= 1 /\ k - 1 \in 0..Rounds
    BY <1>0
  <2>1. pos \in Nat /\ rest \in [Nat -> LabelReads] /\ F[k][pos] = Round(b, pos, rest)
    BY <1>f, <1>p, <2>0
  <2>2. \A q \in Nat : q >= Len(b) => ~ rest[q].ok
    BY <1>1, <2>0
  <2>3. F[k][pos].ok <=> AtRoot(b, pos) \/ (pos < Len(b) /\ rest[Leads(b, pos)].ok)
    <3> HIDE DEF rest, pos
    <3> QED
      BY <2>1, <2>2, RoundOk
  <2>4. CASE k = 1
    <3>1. m + k - 1 = m /\ k - 1 = 0
      BY <2>4
    <3>2. ~ rest[Leads(b, pos)].ok
      BY <1>f, <2>1, <3>1, LeadsToAPlace
    <3> QED
      BY <2>3, <3>1, <3>2
  <2>5. CASE k > 1
    <3>1. m + 1 \in 1..N /\ m + 1 \in 0..N /\ (m + 1) - 1 = m /\ (m + 1) + (k - 1) - 1 = m + k - 1
      BY <2>0, <2>5
    <3>2. Leads(b, pos) = p[m + 1]
      BY <1>p, <3>1
    <3>3. rest[p[m + 1]].ok <=> AtRoot(b, p[m + k - 1])
      <4>1. \A j \in 0..N : j + (k - 1) - 1 <= N =>
              (F[k - 1][p[j]].ok <=> AtRoot(b, p[j + (k - 1) - 1]))
        BY <1>3, <2>5
      <4>2. (m + 1) + (k - 1) - 1 <= N
        BY <3>1
      <4>3. F[k - 1][p[m + 1]].ok <=> AtRoot(b, p[(m + 1) + (k - 1) - 1])
        BY <3>1, <4>1, <4>2
      <4> QED
        BY <3>1, <4>3
    <3>4. IsEnd(b, pos) => p[m + k - 1] = pos
      <4>1. m + k - 1 \in m..N
        BY <2>0
      <4> HIDE DEF rest
      <4> QED
        BY <4>1, StaysThere
    <3>5. CASE AtRoot(b, pos)
      BY <2>3, <3>4, <3>5 DEF IsEnd
    <3>6. CASE ~ AtRoot(b, pos) /\ pos < Len(b)
      BY <2>3, <3>2, <3>3, <3>6
    <3>7. CASE ~ AtRoot(b, pos) /\ ~ (pos < Len(b))
      <4>1. pos >= Len(b)
        BY <1>0, <2>1, <3>7
      <4> QED
        BY <2>3, <3>4, <3>7, <4>1 DEF IsEnd
    <3> QED
      BY <3>5, <3>6, <3>7
  <2> QED
    BY <2>0, <2>4, <2>5
<1> HIDE DEF Good
<1>4. Rounds \in Good
  <2>1. \A k \in 0..Rounds : k \in Good
    BY <1>0, <1>2, <1>3, Upward
  <2> QED
    BY <1>0, <2>1
<1>5. \A m \in 0..N : m + Rounds - 1 <= N =>
        (F[Rounds][p[m]].ok <=> AtRoot(b, p[m + Rounds - 1]))
  BY <1>0, <1>4 DEF Good
<1>6. 0 \in 0..N /\ 0 + Rounds - 1 <= N /\ 0 + Rounds - 1 = Rounds - 1
  BY <1>0
<1>7. F[Rounds][p[0]].ok <=> AtRoot(b, p[0 + Rounds - 1])
  BY <1>5, <1>6
<1> QED
  BY <1>p, <1>6, <1>7

(* readName succeeds exactly if the root is near enough, and then it is no *)
(* further away than the message is long.                                  *)
LEMMA LabelsOk ==
  ASSUME NEW b, IsBytes(b), NEW at \in Nat
  PROVE  /\ ReadLabels(b, at).ok <=> ReachesRoot(b, at, Rounds - 1)
         /\ ReadLabels(b, at).ok => ReachesRoot(b, at, Len(b))
<1> DEFINE N == Rounds + Len(b)
           K == Rounds - 1
           L == Len(b)
<1>0. /\ N \in Nat /\ K \in 0..N /\ L \in 0..N /\ Rounds - 1 <= N /\ Len(b) <= N
  BY WireAssumption, BytesAre
<1>1. b \in Seq(Nat)
  BY BytesAre
<1>2. PICK F : IsReader(b, F) /\ \A i : ReadLabels(b, i) = F[Rounds][i]
  BY <1>1, ReaderExists
<1> HIDE DEF N, K, L
<1>3. PICK p : IsPath(b, at, N, p)
  BY <1>0, PathExists
<1>4. F[Rounds][at].ok <=> AtRoot(b, p[Rounds - 1])
  BY <1>0, <1>2, <1>3, ReadsTheRoot
<1>5. ReachesRoot(b, at, K) <=> AtRoot(b, p[K])
  BY <1>0, <1>3, ReachesRootIs
<1>6. ReachesRoot(b, at, L) <=> AtRoot(b, p[L])
  BY <1>0, <1>3, ReachesRootIs
<1>7. AtRoot(b, p[K]) => AtRoot(b, p[Len(b)])
  BY <1>0, <1>3, RootWithinLength
<1> QED
  BY <1>2, <1>4, <1>5, <1>6, <1>7 DEF K, L

-----------------------------------------------------------------------------
(* The name is the labels, joined; what it is that is read before and      *)
(* behind it does not change.                                              *)
LEMMA NameIs ==
  ASSUME NEW b, IsBytes(b), NEW at \in Nat
  PROVE  /\ ReadLabels(b, at) \in LabelReads
         /\ ReadName(b, at).ok = ReadLabels(b, at).ok
         /\ ReadName(b, at) = [ok |-> ReadLabels(b, at).ok, value |-> Dotted(ReadLabels(b, at).value),
                               next |-> ReadLabels(b, at).next]
<1>1. b \in Seq(Nat) /\ Rounds \in 0..Rounds
  BY BytesAre, WireAssumption
<1>2. PICK F : IsReader(b, F) /\ \A i : ReadLabels(b, i) = F[Rounds][i]
  BY <1>1, ReaderExists
<1>3. F[Rounds] \in [Nat -> LabelReads]
  BY <1>1, <1>2 DEF IsReader
<1>4. ReadLabels(b, at) \in LabelReads
  BY <1>2, <1>3
<1> DEFINE r == ReadLabels(b, at)
<1>5. ReadName(b, at) = [r EXCEPT !.value = Dotted(@)]
  BY DEF ReadName
<1> HIDE DEF r
<1>6. r \in LabelReads
  BY <1>4 DEF r
<1>7. [r EXCEPT !.value = Dotted(@)] = [ok |-> r.ok, value |-> Dotted(r.value), next |-> r.next]
  BY <1>6 DEF LabelReads
<1> QED
  BY <1>5, <1>6, <1>7 DEF r

(* The question of a message with a single one: it is still to be read, or *)
(* has been, and its name came to the root.                                *)
Passed == ReadName(message.bytes, 12).ok
QuestionInv ==
  message.sort # "query" =>
    /\ IsBytes(message.bytes)
    /\ Has(message.bytes, 6, 2) /\ U16(message.bytes, 4) = 1 =>
         /\ stage = "questions" => (left = 1 /\ offset = 12) \/ (left = 0 /\ Passed)
         /\ stage \in {"answers", "fulfilled"} => Passed
         /\ U16(message.bytes, 6) = 0 =>
              /\ stage = "answers" => left = 0
              /\ stage = "thrown" => ~ Passed

LEMMA QuestionInvStep == QuestionInv /\ [PureNext]_pureVars => QuestionInv'
<1> SUFFICES ASSUME QuestionInv, [PureNext]_pureVars PROVE QuestionInv'
  OBVIOUS
<1>1. CASE UNCHANGED wireVars
  BY <1>1 DEF QuestionInv, Passed, wireVars
<1>2. ASSUME NEW m \in Inputs, stage = "idle", ReadHeader(m) PROVE QuestionInv'
  <2>1. message' = m /\ offset' = 12
    BY <1>2 DEF ReadHeader
  <2>2. IsBytes(m.bytes)
    BY WireAssumption DEF IsBytes, Octets
  <2>3. CASE Has(m.bytes, 6, 2)
    BY <1>2, <2>1, <2>2, <2>3 DEF QuestionInv, ReadHeader
  <2>4. CASE ~ Has(m.bytes, 6, 2)
    BY <2>1, <2>2, <2>4 DEF QuestionInv
  <2> QED
    BY <2>3, <2>4
<1>3. ASSUME NEW q \in Queries, Encode(q) PROVE QuestionInv'
  BY <1>3 DEF QuestionInv, Encode
<1>4. CASE SkipQuestion
  BY <1>4 DEF QuestionInv, SkipQuestion, Question, Passed
<1>5. CASE QuestionsDone
  BY <1>5 DEF QuestionInv, QuestionsDone, Passed
<1>6. CASE DecodeAnswer
  BY <1>6 DEF QuestionInv, DecodeAnswer, Passed
<1>7. CASE ReturnMessage
  BY <1>7 DEF QuestionInv, ReturnMessage, Passed
<1>8. CASE ThrowOut
  BY <1>8 DEF QuestionInv, ThrowOut, Question, Passed
<1> QED
  BY <1>1, <1>2, <1>3, <1>4, <1>5, <1>6, <1>7, <1>8 DEF PureNext, WireNext, pureVars

(* A question that is let pass comes to the root: one whose name goes      *)
(* round in circles or leaves the message is refused, and none is that     *)
(* ends within the rounds (wire.ts:200).                                   *)
THEOREM LoopsRefused == PureSpec => []LoopsAreRefused
<1>1. PureInit => QuestionInv
  <2> SUFFICES ASSUME PureInit PROVE QuestionInv
    OBVIOUS
  <2>1. message.bytes = <<>> /\ stage = "idle"
    BY DEF PureInit, WireInit
  <2>2. <<>> \in Seq(Octets)
    OBVIOUS
  <2> QED
    BY <2>1, <2>2 DEF QuestionInv, IsBytes
<1>2. QuestionInv => LoopsAreRefused
  <2> SUFFICES ASSUME QuestionInv, message.sort # "query", Has(message.bytes, 6, 2),
                      U16(message.bytes, 4) = 1
               PROVE  /\ stage \in {"answers", "fulfilled"} =>
                           ReachesRoot(message.bytes, 12, Len(message.bytes))
                      /\ stage = "thrown" /\ U16(message.bytes, 6) = 0 =>
                           ~ ReachesRoot(message.bytes, 12, Rounds - 1)
    BY DEF LoopsAreRefused
  <2> DEFINE b == message.bytes
  <2>1. IsBytes(b) /\ 12 \in Nat
    BY DEF QuestionInv
  <2>2. /\ ReadName(b, 12).ok <=> ReachesRoot(b, 12, Rounds - 1)
        /\ ReadName(b, 12).ok => ReachesRoot(b, 12, Len(b))
    <3> HIDE DEF b
    <3>1. ReadName(b, 12).ok = ReadLabels(b, 12).ok
      BY <2>1, NameIs
    <3> QED
      BY <2>1, <3>1, LabelsOk
  <2> QED
    BY <2>2 DEF QuestionInv, Passed
<1>3. QuestionInv /\ [PureNext]_pureVars => QuestionInv'
  BY QuestionInvStep
<1> QED
  BY <1>1, <1>2, <1>3, PTL DEF PureSpec

-----------------------------------------------------------------------------
(* Messages of which the end is missing *)

(* A message of which the end is missing, and the whole of it.             *)
IsCut(b, w) ==
  /\ IsBytes(b) /\ IsBytes(w)
  /\ Len(b) <= Len(w) /\ \A i \in 1..Len(b) : b[i] = w[i]

(* The beginning of a message, or of a text, is it cut off.                *)
LEMMA BeginningIsCut ==
  ASSUME NEW b \in Seq(Octets), NEW w \in Seq(Octets), IsPrefix(b, w)
  PROVE  IsCut(b, w)
<1>1. Len(b) <= Len(w) /\ SubSeq(b, 1, Len(b)) = SubSeq(w, 1, Len(b))
  BY DEF IsPrefix
<1>2. ASSUME NEW i \in 1..Len(b) PROVE b[i] = w[i]
  <2>1. SubSeq(b, 1, Len(b))[i] = b[i] /\ SubSeq(w, 1, Len(b))[i] = w[i]
    BY <1>1
  <2> QED
    BY <1>1, <2>1
<1> QED
  BY <1>1, <1>2 DEF IsCut, IsBytes

(* A message is a cut of itself, so that what is said of a cut and its     *)
(* whole says what is read of any message.                                 *)
LEMMA CutOfItself == ASSUME NEW b, IsBytes(b) PROVE IsCut(b, b)
BY DEF IsCut, IsBytes

(* What can be read of the cut is what the whole has there.                *)
LEMMA BytesAlike ==
  ASSUME NEW b, NEW w, IsCut(b, w), NEW pos \in Nat, NEW k \in Nat, Has(b, pos, k)
  PROVE  /\ Has(w, pos, k)
         /\ k >= 1 => U8(b, pos) \in Octets /\ U8(w, pos) = U8(b, pos)
         /\ k >= 2 => U16(b, pos) \in Nat /\ U16(w, pos) = U16(b, pos)
<1>0. /\ Len(b) \in Nat /\ Len(w) \in Nat /\ Len(b) <= Len(w)
      /\ \A i \in 1..Len(b) : b[i] \in Octets /\ b[i] = w[i]
  BY DEF IsCut, IsBytes
<1>1. pos + k <= Len(b) /\ Has(w, pos, k)
  BY <1>0 DEF Has
<1>2. ASSUME k >= 1 PROVE U8(b, pos) \in Octets /\ U8(w, pos) = U8(b, pos)
  <2>1. pos + 1 \in 1..Len(b)
    BY <1>0, <1>1, <1>2
  <2> QED
    BY <1>0, <2>1 DEF U8
<1>3. ASSUME k >= 2 PROVE U16(b, pos) \in Nat /\ U16(w, pos) = U16(b, pos)
  <2>1. (pos + 1) + 1 \in 1..Len(b)
    BY <1>0, <1>1, <1>3
  <2>2. U8(b, pos + 1) \in Octets /\ U8(w, pos + 1) = U8(b, pos + 1)
    BY <1>0, <2>1 DEF U8
  <2>3. U8(b, pos) \in Octets /\ U8(w, pos) = U8(b, pos)
    BY <1>2, <1>3
  <2>4. U16(w, pos) = U16(b, pos)
    BY <2>2, <2>3 DEF U16
  <2>5. \A x, y \in 0..255 : x * 256 + y \in Nat
    OBVIOUS
  <2>6. U8(b, pos) \in 0..255 /\ U8(b, pos + 1) \in 0..255
    BY <2>2, <2>3 DEF Octets
  <2>7. U8(b, pos) * 256 + U8(b, pos + 1) \in Nat
    BY <2>5, <2>6
  <2> QED
    BY <2>4, <2>7 DEF U16
<1>4. Has(w, pos, k)
  BY <1>1
<1>5. k >= 1 => U8(b, pos) \in Octets /\ U8(w, pos) = U8(b, pos)
  BY <1>2
<1>6. k >= 2 => U16(b, pos) \in Nat /\ U16(w, pos) = U16(b, pos)
  BY <1>3
<1> QED
  BY <1>4, <1>5, <1>6

(* A slice of the cut is the beginning of the slice of the whole, and all  *)
(* of it if the cut has its end.                                           *)
LEMMA SliceAlike ==
  ASSUME NEW b, NEW w, IsCut(b, w), NEW i \in Nat, NEW end \in Nat
  PROVE  /\ Slice(b, i, end) \in Seq(Octets) /\ Slice(w, i, end) \in Seq(Octets)
         /\ IsPrefix(Slice(b, i, end), Slice(w, i, end))
         /\ end <= Len(b) => Slice(b, i, end) = Slice(w, i, end)
<1> DEFINE e == IF end > Len(b) THEN Len(b) ELSE end
           f == IF end > Len(w) THEN Len(w) ELSE end
<1>0. /\ b \in Seq(Octets) /\ w \in Seq(Octets)
      /\ Len(b) \in Nat /\ Len(w) \in Nat /\ Len(b) <= Len(w)
      /\ \A j \in 1..Len(b) : b[j] \in Octets /\ b[j] = w[j]
  BY DEF IsCut, IsBytes
<1>1. /\ e \in Nat /\ f \in Nat /\ e <= f /\ e <= Len(b) /\ f <= Len(w)
      /\ end <= Len(b) => e = f
  BY <1>0
<1>2. Slice(b, i, end) = SubSeq(b, i + 1, e) /\ Slice(w, i, end) = SubSeq(w, i + 1, f)
  BY DEF Slice
<1> HIDE DEF e, f
<1> DEFINE s == SubSeq(b, i + 1, e)
           t == SubSeq(w, i + 1, f)
<1>3. s \in Seq(Octets) /\ t \in Seq(Octets)
  BY <1>0, <1>1
<1>4. /\ Len(s) = (IF i + 1 <= e THEN e - i ELSE 0)
      /\ Len(t) = (IF i + 1 <= f THEN f - i ELSE 0)
      /\ \A j \in 1..Len(s) : s[j] = b[i + j]
      /\ \A j \in 1..Len(t) : t[j] = w[i + j]
  BY <1>0, <1>1
<1> HIDE DEF s, t
<1>5. Len(s) \in Nat /\ Len(t) \in Nat /\ Len(s) <= Len(t) /\ (e = f => Len(s) = Len(t))
  BY <1>1, <1>4
<1>6. \A j \in 1..Len(s) : s[j] = t[j]
  <2> SUFFICES ASSUME NEW j \in 1..Len(s) PROVE s[j] = t[j]
    OBVIOUS
  <2>1. i + j \in 1..Len(b) /\ j \in 1..Len(t)
    BY <1>0, <1>1, <1>4, <1>5
  <2> QED
    BY <1>0, <1>4, <2>1
<1>7. SubSeq(s, 1, Len(s)) = SubSeq(t, 1, Len(s))
  <2>1. /\ SubSeq(s, 1, Len(s)) \in Seq(Octets) /\ SubSeq(t, 1, Len(s)) \in Seq(Octets)
        /\ Len(SubSeq(s, 1, Len(s))) = Len(s) /\ Len(SubSeq(t, 1, Len(s))) = Len(s)
        /\ \A j \in 1..Len(s) : SubSeq(s, 1, Len(s))[j] = s[j] /\ SubSeq(t, 1, Len(s))[j] = t[j]
    BY <1>3, <1>5
  <2> QED
    BY <1>6, <2>1, SameSequence
<1>8. e = f => s = t
  BY <1>3, <1>5, <1>6, SameSequence
<1> QED
  BY <1>1, <1>2, <1>3, <1>5, <1>7, <1>8 DEF s, t, IsPrefix

(* One byte. *)
LEMMA ByteAlike ==
  ASSUME NEW b, NEW w, IsCut(b, w), NEW pos \in Nat, Has(b, pos, 1)
  PROVE  Has(w, pos, 1) /\ U8(w, pos) = U8(b, pos) /\ U8(b, pos) \in Nat
<1>1. 1 \in Nat /\ 1 >= 1
  OBVIOUS
<1>2. \A x \in Octets : x \in Nat
  BY DEF Octets
<1> QED
  BY <1>1, <1>2, BytesAlike

(* One round of readName succeeds on the cut only as it does on the whole. *)
LEMMA RoundAlike ==
  ASSUME NEW b, NEW w, IsCut(b, w), NEW pos \in Nat,
         NEW rest \in [Nat -> LabelReads], NEW more \in [Nat -> LabelReads],
         \A q \in Nat : rest[q].ok => q < Len(b) /\ more[q] = rest[q],
         Round(b, pos, rest).ok
  PROVE  pos < Len(b) /\ Round(w, pos, more) = Round(b, pos, rest)
<1>0. IsBytes(b) /\ IsBytes(w) /\ Len(b) \in Nat /\ Len(w) \in Nat
  BY BytesAre DEF IsCut
<1>1. Has(b, pos, 1)
  BY DEF Round, Throws
<1>2. pos < Len(b)
  BY <1>0, <1>1 DEF Has
<1>3. Has(w, pos, 1) /\ U8(w, pos) = U8(b, pos) /\ U8(b, pos) \in Nat
  BY <1>1, ByteAlike
<1>4. CASE U8(b, pos) = 0
  BY <1>1, <1>2, <1>3, <1>4 DEF Round
<1>5. CASE U8(b, pos) # 0 /\ U8(b, pos) < 192
  <2> DEFINE q == pos + 1 + U8(b, pos)
             l == Slice(b, pos + 1, q)
             m == Slice(w, pos + 1, q)
             r == rest[q]
             s == more[q]
  <2>1. Round(b, pos, rest) = [r EXCEPT !.value = <<l>> \o @]
    BY <1>1, <1>5 DEF Round
  <2>2. Round(w, pos, more) = [s EXCEPT !.value = <<m>> \o @]
    BY <1>3, <1>5 DEF Round
  <2>3. q \in Nat /\ pos + 1 \in Nat
    BY <1>3
  <2>4. r \in LabelReads
    BY <2>3
  <2>5. r.ok => q < Len(b) /\ s = r
    BY <2>3
  <2>6. q <= Len(b) => l = m
    BY <2>3, SliceAlike
  <2> HIDE DEF r, s, l, m, q
  <2>7. r.ok
    BY <2>1, <2>4 DEF LabelReads
  <2>8. s = r /\ l = m
    BY <1>0, <2>3, <2>5, <2>6, <2>7
  <2> QED
    BY <1>2, <2>1, <2>2, <2>8
<1>6. CASE U8(b, pos) # 0 /\ ~ (U8(b, pos) < 192)
  <2>1. Has(b, pos, 2)
    BY <1>1, <1>6 DEF Round, Throws
  <2>2. Has(w, pos, 2) /\ U16(b, pos) \in Nat /\ U16(w, pos) = U16(b, pos)
    BY <2>1, BytesAlike
  <2> DEFINE q == U16(b, pos) % 16384
             r == rest[q]
             s == more[q]
  <2>3. Round(b, pos, rest) = [r EXCEPT !.next = pos + 2]
    BY <1>1, <1>6, <2>1 DEF Round, Jumped
  <2>4. Round(w, pos, more) = [s EXCEPT !.next = pos + 2]
    BY <1>3, <1>6, <2>2 DEF Round, Jumped
  <2>5. q \in Nat
    BY <2>2
  <2>6. r \in LabelReads
    BY <2>5
  <2>7. r.ok => s = r
    BY <2>5
  <2> HIDE DEF r, s, q
  <2>8. r.ok
    BY <2>3, <2>6 DEF LabelReads
  <2> QED
    BY <1>2, <2>3, <2>4, <2>7, <2>8
<1> QED
  BY <1>4, <1>5, <1>6

(* The labels that are read of the cut are read of the whole.              *)
LEMMA LabelsAlike ==
  ASSUME NEW b, NEW w, IsCut(b, w), NEW at \in Nat
  PROVE  /\ ReadLabels(b, at) \in LabelReads
         /\ ReadLabels(b, at).ok => ReadLabels(w, at) = ReadLabels(b, at)
<1>0. b \in Seq(Nat) /\ w \in Seq(Nat) /\ Rounds \in Nat
  BY BytesAre, WireAssumption DEF IsCut
<1>1. PICK F : IsReader(b, F) /\ \A i : ReadLabels(b, i) = F[Rounds][i]
  BY <1>0, ReaderExists
<1>2. PICK G : IsReader(w, G) /\ \A i : ReadLabels(w, i) = G[Rounds][i]
  BY <1>0, ReaderExists
<1>3. /\ \A k \in 0..Rounds : F[k] \in [Nat -> LabelReads] /\ G[k] \in [Nat -> LabelReads]
      /\ \A pos \in Nat : ~ F[0][pos].ok
      /\ \A k \in 1..Rounds : \A pos \in Nat :
           /\ F[k][pos] = Round(b, pos, F[k - 1])
           /\ G[k][pos] = Round(w, pos, G[k - 1])
  BY <1>1, <1>2 DEF IsReader, OutOfRounds, Throws
<1> DEFINE Good == {k \in Nat : \A q \in Nat : F[k][q].ok => q < Len(b) /\ G[k][q] = F[k][q]}
<1>4. 0 \in Good
  BY <1>3
<1>5. ASSUME NEW k \in 1..Rounds, k - 1 \in Good PROVE k \in Good
  <2>1. k \in Nat /\ k - 1 \in 0..Rounds
    BY <1>0
  <2> DEFINE rest == F[k - 1]
             more == G[k - 1]
  <2>2. rest \in [Nat -> LabelReads] /\ more \in [Nat -> LabelReads]
    BY <1>3, <2>1
  <2>3. \A q \in Nat : rest[q].ok => q < Len(b) /\ more[q] = rest[q]
    BY <1>5
  <2>4. \A pos \in Nat : F[k][pos] = Round(b, pos, rest) /\ G[k][pos] = Round(w, pos, more)
    BY <1>3
  <2> HIDE DEF rest, more
  <2>5. \A pos \in Nat : F[k][pos].ok => pos < Len(b) /\ G[k][pos] = F[k][pos]
    BY <2>2, <2>3, <2>4, RoundAlike, SMTT(30)
  <2> QED
    BY <2>1, <2>5
<1>6. Rounds \in Good
  <2> HIDE DEF Good
  <2>1. \A k \in 0..Rounds : k \in Good
    BY <1>0, <1>4, <1>5, Upward
  <2> QED
    BY <1>0, <2>1
<1>7. F[Rounds][at] \in LabelReads
  <2>1. F[Rounds] \in [Nat -> LabelReads]
    BY <1>0, <1>3
  <2> QED
    BY <2>1
<1> QED
  BY <1>1, <1>2, <1>6, <1>7

(* The names readName returns.                                             *)
NameTexts == {Dotted(labels) : labels \in Seq(Seq(Nat))}
NameReads == [ok : BOOLEAN, value : NameTexts, next : Nat]

(* A name that is read of the cut is read of the whole.                    *)
LEMMA NameAlike ==
  ASSUME NEW b, NEW w, IsCut(b, w), NEW at \in Nat
  PROVE  /\ ReadName(b, at) \in NameReads
         /\ ReadName(b, at).ok => ReadName(w, at) = ReadName(b, at)
<1>1. IsBytes(b) /\ IsBytes(w)
  BY DEF IsCut
<1> DEFINE r == ReadLabels(b, at)
           t == ReadLabels(w, at)
<1>2. /\ r \in LabelReads /\ ReadName(b, at).ok = r.ok
      /\ ReadName(b, at) = [ok |-> r.ok, value |-> Dotted(r.value), next |-> r.next]
      /\ ReadName(w, at) = [ok |-> t.ok, value |-> Dotted(t.value), next |-> t.next]
  BY <1>1, NameIs
<1>3. r.ok => t = r
  BY LabelsAlike
<1> HIDE DEF r, t
<1>4. r.ok \in BOOLEAN /\ r.value \in Seq(Seq(Nat)) /\ r.next \in Nat
  BY <1>2 DEF LabelReads
<1>5. Dotted(r.value) \in NameTexts
  BY <1>4 DEF NameTexts
<1>6. ReadName(b, at) \in NameReads
  BY <1>2, <1>4, <1>5 DEF NameReads
<1> QED
  BY <1>2, <1>3, <1>6

(* Fields.  What is read of the cut is read of the whole.                  *)
Exactly(r, s) == r.ok => s = r

(* Where the next field of the cut is, there it is of the whole; what is   *)
(* read is the beginning of what the whole has.                            *)
ButForATail(r, s) == r.ok => s.ok /\ s.next = r.next /\ IsPrefix(r.value, s.value)

(* A field of a fixed width. *)
LEMMA FixedAlike ==
  ASSUME NEW b, NEW w, IsCut(b, w), NEW at \in Nat, NEW k \in Nat
  PROVE  /\ Exactly(Fixed(b, at, k), Fixed(w, at, k))
         /\ Fixed(b, at, k).ok => Fixed(b, at, k).next \in Nat /\ Fixed(b, at, k).value \in Seq(Octets)
<1>1. CASE Has(b, at, k)
  <2>1. Has(w, at, k)
    BY <1>1, BytesAlike
  <2>2. Len(b) \in Nat /\ at + k \in Nat
    BY BytesAre DEF IsCut
  <2>3. at + k <= Len(b)
    BY <1>1 DEF Has
  <2>4. Slice(b, at, at + k) \in Seq(Octets) /\ Slice(w, at, at + k) = Slice(b, at, at + k)
    BY <2>2, <2>3, SliceAlike, ZenonT(30)
  <2> QED
    BY <1>1, <2>1, <2>2, <2>4 DEF Fixed, Exactly, Read
<1>2. CASE ~ Has(b, at, k)
  BY <1>2 DEF Fixed, Exactly, Throws
<1> QED
  BY <1>1, <1>2

(* A length and as many bytes: those that are missing are missing at the   *)
(* end of the cut.                                                         *)
LEMMA Counted8Alike ==
  ASSUME NEW b, NEW w, IsCut(b, w), NEW at \in Nat, Counted8(b, at).ok
  PROVE  /\ Counted8(w, at).ok /\ Counted8(w, at).next = Counted8(b, at).next
         /\ Counted8(b, at).next \in Nat /\ at < Counted8(b, at).next
         /\ Counted8(b, at).value \in Seq(Octets) /\ Counted8(w, at).value \in Seq(Octets)
         /\ IsPrefix(Counted8(b, at).value, Counted8(w, at).value)
         /\ Counted8(b, at).next <= Len(b) => Counted8(w, at).value = Counted8(b, at).value
<1>1. Has(b, at, 1)
  BY DEF Counted8, Throws
<1>2. Has(w, at, 1) /\ U8(w, at) = U8(b, at) /\ U8(b, at) \in Nat
  BY <1>1, ByteAlike
<1> DEFINE q == at + 1 + U8(b, at)
<1>3. q \in Nat /\ at < q /\ at + 1 \in Nat
  BY <1>2
<1>4. Counted8(b, at) = Read(Slice(b, at + 1, q), q) /\ Counted8(w, at) = Read(Slice(w, at + 1, q), q)
  BY <1>1, <1>2 DEF Counted8
<1> HIDE DEF q
<1> QED
  BY <1>3, <1>4, SliceAlike DEF Read

-----------------------------------------------------------------------------
(* Going through a message *)

(* A function that is defined from each place by one further on, up to an  *)
(* end, exists.                                                            *)
IsScan(S, end, done, stop, next, join) ==
  /\ end \in Nat /\ \A pos \in Nat : pos >= end => pos \in done
  /\ stop \in [Nat -> S]
  /\ next \in [Nat -> Nat] /\ \A pos \in Nat : next[pos] > pos
  /\ join \in [Nat \X S -> S]

LEMMA ScanExists ==
  ASSUME NEW S, NEW end, NEW done, NEW stop, NEW next, NEW join,
         IsScan(S, end, done, stop, next, join)
  PROVE  \E h \in [Nat -> S] : \A pos \in Nat :
           h[pos] = IF pos \in done THEN stop[pos] ELSE join[<<pos, h[next[pos]]>>]
<1> DEFINE T == [Nat -> S]
           Once(f) == [pos \in Nat |-> IF pos \in done THEN stop[pos] ELSE join[<<pos, f[next[pos]]>>]]
           N == end + 1
           step == [p \in (1..N) \X T |-> Once(p[2])]
<1>0. /\ end \in Nat /\ \A pos \in Nat : pos >= end => pos \in done
      /\ stop \in T
      /\ \A pos \in Nat : next[pos] \in Nat /\ next[pos] > pos
      /\ \A pos \in Nat : stop[pos] \in S
      /\ \A pos \in Nat : \A r \in S : join[<<pos, r>>] \in S
  BY DEF IsScan
<1>1. ASSUME NEW f \in T PROVE Once(f) \in T
  <2>1. \A pos \in Nat : f[pos] \in S
    OBVIOUS
  <2>2. \A pos \in Nat : (IF pos \in done THEN stop[pos] ELSE join[<<pos, f[next[pos]]>>]) \in S
    BY <1>0, <2>1
  <2> QED
    BY <2>2
<1>2. Recursive(T, stop, N, step)
  <2>1. N \in Nat
    BY <1>0
  <2>2. \A p \in (1..N) \X T : p[2] \in T
    OBVIOUS
  <2> HIDE DEF Once, T, N
  <2>3. \A p \in (1..N) \X T : Once(p[2]) \in T
    BY <1>1, <2>2
  <2>4. step \in [(1..N) \X T -> T]
    BY <2>3
  <2> QED
    BY <1>0, <2>1, <2>4 DEF Recursive
<1>3. PICK g \in [0..N -> T] : g[0] = stop /\ \A i \in 1..N : g[i] = step[<<i, g[i - 1]>>]
  <2> HIDE DEF T, N, step
  <2> QED
    BY <1>2, RecursionExists
<1>4. \A i \in 0..N : g[i] \in T
  <2> HIDE DEF T, N
  <2> QED
    BY <1>3
<1>5. ASSUME NEW i \in 1..N PROVE g[i] = Once(g[i - 1])
  <2>1. i - 1 \in 0..N
    BY <1>0
  <2> HIDE DEF T, N, Once
  <2>2. <<i, g[i - 1]>> \in (1..N) \X T
    BY <1>4, <2>1
  <2>3. step[<<i, g[i - 1]>>] = Once(<<i, g[i - 1]>>[2])
    BY <2>2
  <2> QED
    BY <1>3, <2>3
<1>6. ASSUME NEW i \in 1..N, NEW pos \in Nat
      PROVE  g[i][pos] = IF pos \in done THEN stop[pos] ELSE join[<<pos, g[i - 1][next[pos]]>>]
  BY <1>5, ZenonT(30)
<1> HIDE DEF Once, step, T
<1> DEFINE Good == {k \in Nat : \A pos \in Nat : pos + k >= end => g[k + 1][pos] = g[k][pos]}
<1>7. 0 \in Good
  <2> SUFFICES ASSUME NEW pos \in Nat, pos >= end PROVE g[1][pos] = g[0][pos]
    OBVIOUS
  <2>1. pos \in done /\ 1 \in 1..N
    BY <1>0
  <2> QED
    BY <1>3, <1>6, <2>1
<1>8. ASSUME NEW k \in 1..end, k - 1 \in Good PROVE k \in Good
  <2>0. k \in Nat /\ k \in 1..N /\ k + 1 \in 1..N /\ (k + 1) - 1 = k
    BY <1>0
  <2> SUFFICES ASSUME NEW pos \in Nat, pos + k >= end PROVE g[k + 1][pos] = g[k][pos]
    BY <2>0
  <2>1. g[k + 1][pos] = IF pos \in done THEN stop[pos] ELSE join[<<pos, g[k][next[pos]]>>]
    BY <1>6, <2>0
  <2>2. g[k][pos] = IF pos \in done THEN stop[pos] ELSE join[<<pos, g[k - 1][next[pos]]>>]
    BY <1>6, <2>0
  <2>3. next[pos] \in Nat /\ next[pos] + (k - 1) >= end
    BY <1>0, <2>0
  <2>4. \A q \in Nat : q + (k - 1) >= end => g[(k - 1) + 1][q] = g[k - 1][q]
    BY <1>8
  <2>5. (k - 1) + 1 = k
    BY <2>0
  <2>6. g[k][next[pos]] = g[k - 1][next[pos]]
    BY <2>3, <2>4, <2>5
  <2> QED
    BY <2>1, <2>2, <2>6
<1>9. end \in Good
  <2> HIDE DEF Good
  <2>1. \A k \in 0..end : k \in Good
    BY <1>0, <1>7, <1>8, Upward
  <2> QED
    BY <1>0, <2>1
<1>10. end \in 0..N /\ end + 1 \in 1..N /\ (end + 1) - 1 = end
  BY <1>0
<1>11. ASSUME NEW pos \in Nat
       PROVE  g[end][pos] = IF pos \in done THEN stop[pos] ELSE join[<<pos, g[end][next[pos]]>>]
  <2>1. g[end + 1][pos] = g[end][pos]
    <3>1. pos + end >= end
      BY <1>0
    <3> QED
      BY <1>9, <3>1
  <2>2. g[end + 1][pos] = IF pos \in done THEN stop[pos] ELSE join[<<pos, g[end][next[pos]]>>]
    BY <1>6, <1>10
  <2> QED
    BY <2>1, <2>2
<1>12. g[end] \in [Nat -> S]
  BY <1>4, <1>10 DEF T
<1> QED
  BY <1>11, <1>12

(* What holds from an end on, and of each place if of all behind it, holds *)
(* of all of them.                                                         *)
LEMMA Backward ==
  ASSUME NEW end \in Nat, NEW Good,
         \A pos \in Nat : pos >= end => pos \in Good,
         \A pos \in Nat : (\A q \in Nat : q > pos => q \in Good) => pos \in Good
  PROVE  \A pos \in Nat : pos \in Good
<1> DEFINE From == {k \in Nat : \A pos \in Nat : pos + k >= end => pos \in Good}
<1>1. 0 \in From
  OBVIOUS
<1>2. ASSUME NEW k \in 1..end, k - 1 \in From PROVE k \in From
  <2> SUFFICES ASSUME NEW pos \in Nat, pos + k >= end PROVE pos \in Good
    OBVIOUS
  <2>1. \A q \in Nat : q > pos => q + (k - 1) >= end
    OBVIOUS
  <2>2. \A q \in Nat : q > pos => q \in Good
    BY <1>2, <2>1
  <2> QED
    BY <2>2
<1>3. end \in From
  <2> HIDE DEF From
  <2>1. \A k \in 0..end : k \in From
    BY <1>1, <1>2, Upward
  <2> QED
    BY <2>1
<1>4. \A pos \in Nat : pos + end >= end
  OBVIOUS
<1> QED
  BY <1>3, <1>4

(* Putting the same in front of two sequences, or a sequence in front of   *)
(* nothing and of anything.                                                *)
LEMMA PrefixJoined ==
  ASSUME NEW S, NEW c \in Seq(S), NEW s \in Seq(S), NEW t \in Seq(S), IsPrefix(s, t)
  PROVE  IsPrefix(c \o s, c \o t)
<1>1. /\ Len(s) \in Nat /\ Len(t) \in Nat /\ Len(c) \in Nat /\ Len(s) <= Len(t)
      /\ SubSeq(s, 1, Len(s)) = SubSeq(t, 1, Len(s))
  BY DEF IsPrefix
<1>2. ASSUME NEW j \in 1..Len(s) PROVE s[j] = t[j]
  <2>1. SubSeq(s, 1, Len(s))[j] = s[j] /\ SubSeq(t, 1, Len(s))[j] = t[j]
    BY <1>1
  <2> QED
    BY <1>1, <2>1
<1> DEFINE x == c \o s
           y == c \o t
<1>3. /\ x \in Seq(S) /\ y \in Seq(S)
      /\ Len(x) = Len(c) + Len(s) /\ Len(y) = Len(c) + Len(t)
      /\ \A j \in 1..Len(x) : x[j] = IF j <= Len(c) THEN c[j] ELSE s[j - Len(c)]
      /\ \A j \in 1..Len(y) : y[j] = IF j <= Len(c) THEN c[j] ELSE t[j - Len(c)]
  BY <1>1
<1> HIDE DEF x, y
<1>4. Len(x) \in Nat /\ Len(y) \in Nat /\ Len(x) <= Len(y)
  BY <1>1, <1>3
<1>5. \A j \in 1..Len(x) : x[j] = y[j]
  <2> SUFFICES ASSUME NEW j \in 1..Len(x) PROVE x[j] = y[j]
    OBVIOUS
  <2>1. j \in 1..Len(y)
    BY <1>4
  <2>2. ~ (j <= Len(c)) => j - Len(c) \in 1..Len(s)
    BY <1>1, <1>3
  <2> QED
    BY <1>2, <1>3, <2>1, <2>2
<1>6. SubSeq(x, 1, Len(x)) = SubSeq(y, 1, Len(x))
  <2>1. /\ SubSeq(x, 1, Len(x)) \in Seq(S) /\ SubSeq(y, 1, Len(x)) \in Seq(S)
        /\ Len(SubSeq(x, 1, Len(x))) = Len(x) /\ Len(SubSeq(y, 1, Len(x))) = Len(x)
        /\ \A j \in 1..Len(x) : SubSeq(x, 1, Len(x))[j] = x[j] /\ SubSeq(y, 1, Len(x))[j] = y[j]
    BY <1>3, <1>4
  <2> QED
    BY <1>5, <2>1, SameSequence
<1> QED
  BY <1>4, <1>6 DEF x, y, IsPrefix

-----------------------------------------------------------------------------
(* Decoding *)

(* What is put in front of a torn text leaves it torn.                     *)
LEMMA TornJoined ==
  ASSUME NEW c \in Seq(Octets), NEW x \in Seq(Octets), NEW y \in Seq(Octets), Torn(x, y)
  PROVE  Torn(c \o x, c \o y)
<1>1. CASE IsPrefix(x, y)
  BY <1>1, PrefixJoined DEF Torn
<1>2. ASSUME NEW k \in 0..Len(y), x = SubSeq(y, 1, k) \o Replacement PROVE Torn(c \o x, c \o y)
  <2> DEFINE u == c \o y
             m == Len(c) + k
             z == SubSeq(y, 1, k)
             v == SubSeq(u, 1, m)
  <2>1. /\ u \in Seq(Octets) /\ Len(u) = Len(c) + Len(y) /\ m \in 0..Len(u) /\ k \in Nat
        /\ Len(c) \in Nat /\ Len(y) \in Nat
        /\ \A j \in 1..Len(u) : u[j] = IF j <= Len(c) THEN c[j] ELSE y[j - Len(c)]
    OBVIOUS
  <2>2. z \in Seq(Octets) /\ Len(z) = k /\ \A j \in 1..k : z[j] = y[j]
    OBVIOUS
  <2> HIDE DEF u, z, m
  <2>3. v \in Seq(Octets) /\ Len(v) = m /\ \A j \in 1..m : v[j] = u[j]
    <3>1. \A t \in Seq(Octets) : \A e \in 0..Len(t) :
            SubSeq(t, 1, e) \in Seq(Octets) /\ Len(SubSeq(t, 1, e)) = e
              /\ \A j \in 1..e : SubSeq(t, 1, e)[j] = t[j]
      OBVIOUS
    <3> QED
      BY <2>1, <3>1
  <2> DEFINE q == c \o z
  <2>4. /\ q \in Seq(Octets) /\ Len(q) = Len(c) + k
        /\ \A j \in 1..Len(q) : q[j] = IF j <= Len(c) THEN c[j] ELSE z[j - Len(c)]
    <3>1. \A r, t \in Seq(Octets) :
            /\ r \o t \in Seq(Octets) /\ Len(r \o t) = Len(r) + Len(t)
            /\ \A j \in 1..Len(r \o t) : (r \o t)[j] = IF j <= Len(r) THEN r[j] ELSE t[j - Len(r)]
      OBVIOUS
    <3> QED
      BY <2>2, <3>1
  <2> HIDE DEF v, q
  <2>5. ASSUME NEW j \in 1..Len(q) PROVE q[j] = v[j]
    <3>1. j \in 1..m /\ j \in 1..Len(u) /\ m = Len(c) + k
      BY <2>1, <2>4 DEF m
    <3>2. ~ (j <= Len(c)) => j - Len(c) \in 1..k
      BY <2>1, <2>4
    <3> QED
      BY <2>1, <2>2, <2>3, <2>4, <3>1, <3>2
  <2>6. q = v
    <3>1. Len(q) = Len(v)
      BY <2>3, <2>4 DEF m
    <3> QED
      BY <2>3, <2>4, <2>5, <3>1, SameSequence
  <2>7. Replacement \in Seq(Octets)
    BY DEF Replacement, Octets
  <2>8. c \o (z \o Replacement) = q \o Replacement
    <3>1. /\ c \in Seq(Octets) /\ z \in Seq(Octets)
          /\ Replacement \in Seq(Octets)
      BY <2>2, <2>7
    <3>2. (c \o z) \o Replacement = c \o (z \o Replacement)
      <4> HIDE DEF z
      <4> QED
        BY ONLY <3>1, ConcatAssociative
    <3> QED
      BY ONLY <3>2 DEF q
  <2>9. c \o x = v \o Replacement
    BY <1>2, <2>6, <2>8 DEF z
  <2> QED
    BY <2>1, <2>9 DEF Torn, u, v
<1> QED
  BY <1>1, <1>2 DEF Torn

(* How far a character goes on.                                            *)
LEMMA GoingIs ==
  ASSUME NEW s, IsBytes(s), NEW i \in Nat, i < Len(s)
  PROVE  LET k == Going(s, i)
             most == Behind(U8(s, i))
         IN  /\ k \in Nat /\ i + 1 + k <= Len(s) /\ most \in -1..3
             /\ \A j \in 1..k : GoesOn(s, i, j)
             /\ k <= most \/ (k = 0 /\ most = -1)
             /\ k < most => ~ GoesOn(s, i, k + 1)
<1>0. Len(s) \in Nat
  BY BytesAre
<1>1. U8(s, i) \in 0..255
  <2>1. i + 1 \in 1..Len(s)
    BY <1>0
  <2>2. \A t \in Seq(Octets) : \A j \in 1..Len(t) : t[j] \in Octets
    OBVIOUS
  <2> QED
    BY <2>1, <2>2 DEF U8, IsBytes, Octets
<1> DEFINE most == Behind(U8(s, i))
           K == {0} \cup {k \in 1..most : \A j \in 1..k : GoesOn(s, i, j)}
           k == Going(s, i)
<1>2. most \in -1..3
  BY <1>1 DEF Behind
<1>3. k = Max(K)
  BY DEF Going
<1> HIDE DEF most, k
<1>4. K \subseteq 0..3
  BY <1>2
<1>5. /\ 0 \in K
      /\ \A y : y \in K <=> y = 0 \/ (y \in 1..most /\ \A j \in 1..y : GoesOn(s, i, j))
  OBVIOUS
<1> HIDE DEF K
<1>6. \E x \in K : \A y \in K : x >= y
  <2>1. CASE 3 \in K
    BY <1>4, <2>1
  <2>2. CASE 3 \notin K /\ 2 \in K
    BY <1>4, <2>2
  <2>3. CASE 3 \notin K /\ 2 \notin K /\ 1 \in K
    BY <1>4, <2>3
  <2>4. CASE 3 \notin K /\ 2 \notin K /\ 1 \notin K
    BY <1>4, <1>5, <2>4
  <2> QED
    BY <2>1, <2>2, <2>3, <2>4
<1>7. k \in K /\ \A y \in K : k >= y
  BY <1>3, <1>6 DEF Max
<1>8. k \in 0..3
  BY <1>4, <1>7
<1>9. \A j \in 1..k : GoesOn(s, i, j)
  BY <1>5, <1>7, <1>8
<1>10. k <= most \/ (k = 0 /\ most = -1)
  BY <1>2, <1>5, <1>7, <1>8
<1>11. ASSUME k < most, GoesOn(s, i, k + 1) PROVE FALSE
  <2>1. k + 1 \in 1..most
    BY <1>2, <1>8, <1>11
  <2>2. \A j \in 1..(k + 1) : GoesOn(s, i, j)
    <3> SUFFICES ASSUME NEW j \in 1..(k + 1) PROVE GoesOn(s, i, j)
      OBVIOUS
    <3>1. j \in 1..k \/ j = k + 1
      BY <1>8
    <3> QED
      BY <1>9, <1>11, <3>1
  <2>3. k + 1 \in K
    BY <1>5, <2>1, <2>2
  <2> QED
    BY <1>7, <1>8, <2>3
<1>12. i + 1 + k <= Len(s)
  <2>1. CASE k = 0
    BY <1>0, <2>1
  <2>2. CASE k # 0
    <3>1. GoesOn(s, i, k)
      BY <1>8, <1>9, <2>2
    <3> QED
      BY <1>0, <1>8, <3>1 DEF GoesOn, Has
  <2> QED
    BY <2>1, <2>2
<1> QED
  BY <1>2, <1>8, <1>9, <1>10, <1>11, <1>12 DEF most, k

(* The character, and the place of the next one.                           *)
NextCharacter(s, pos) == IF pos < Len(s) THEN pos + 1 + Going(s, pos) ELSE pos + 1
CharacterThen(s, pos, r) == IF pos < Len(s) THEN Character(s, pos) \o r ELSE <<>>

LEMMA CharacterIs ==
  ASSUME NEW s, IsBytes(s), NEW pos \in Nat
  PROVE  /\ NextCharacter(s, pos) \in Nat /\ NextCharacter(s, pos) > pos
         /\ pos < Len(s) => Character(s, pos) \in Seq(Octets) /\ NextCharacter(s, pos) <= Len(s)
         /\ \A r \in Seq(Octets) : CharacterThen(s, pos, r) \in Seq(Octets)
<1>1. CASE pos < Len(s)
  <2> DEFINE k == Going(s, pos)
  <2>1. k \in Nat /\ pos + 1 + k <= Len(s)
    BY <1>1, GoingIs
  <2> HIDE DEF k
  <2>2. IsCut(s, s) /\ pos + 1 + k \in Nat
    BY <2>1, CutOfItself
  <2>3. Slice(s, pos, pos + 1 + k) \in Seq(Octets)
    BY <2>2, SliceAlike
  <2>4. Replacement \in Seq(Octets)
    BY DEF Replacement, Octets
  <2>5. Character(s, pos) \in Seq(Octets)
    BY <2>3, <2>4 DEF Character, k
  <2>6. NextCharacter(s, pos) = pos + 1 + k
    BY <1>1 DEF NextCharacter, k
  <2>7. \A r \in Seq(Octets) : Character(s, pos) \o r \in Seq(Octets)
    BY <2>5
  <2> QED
    BY <1>1, <2>1, <2>5, <2>6, <2>7 DEF CharacterThen
<1>2. CASE ~ (pos < Len(s))
  BY <1>2 DEF NextCharacter, CharacterThen
<1> QED
  BY <1>1, <1>2

(* The text from each place on; the recursion has a solution.              *)
IsDecoding(s, h) ==
  /\ h \in [Nat -> Seq(Octets)]
  /\ \A pos \in Nat : h[pos] = IF pos >= Len(s) THEN <<>>
                               ELSE Character(s, pos) \o h[NextCharacter(s, pos)]
Start(s) == IF IsPrefix(ByteOrderMark, s) THEN 3 ELSE 0

LEMMA DecodingExists ==
  ASSUME NEW s, IsBytes(s)
  PROVE  \E h : IsDecoding(s, h) /\ Decoded(s) = h[Start(s)]
<1> DEFINE end == Len(s)
           T == Seq(Octets)
           done == {pos \in Nat : pos >= end}
           stop == [pos \in Nat |-> <<>>]
           next == [pos \in Nat |-> NextCharacter(s, pos)]
           join == [p \in Nat \X T |-> CharacterThen(s, p[1], p[2])]
           Body(Rest) ==
             [i \in Nat |-> IF i >= Len(s) THEN <<>> ELSE Character(s, i) \o Rest[i + 1 + Going(s, i)]]
           F == CHOOSE Rest : Rest = Body(Rest)
<1>0. end \in Nat
  BY BytesAre
<1>1. IsScan(T, end, done, stop, next, join)
  <2>1. stop \in [Nat -> T]
    OBVIOUS
  <2>2. \A pos \in Nat : next[pos] \in Nat /\ next[pos] > pos
    BY CharacterIs
  <2>3. next \in [Nat -> Nat]
    BY <2>2
  <2>4. \A p \in Nat \X T : CharacterThen(s, p[1], p[2]) \in T
    BY CharacterIs
  <2>5. join \in [Nat \X T -> T]
    BY <2>4
  <2>6. \A pos \in Nat : pos >= end => pos \in done
    OBVIOUS
  <2> HIDE DEF done, stop, next, join, T, end
  <2> QED
    BY <1>0, <2>1, <2>2, <2>3, <2>5, <2>6 DEF IsScan
<1>2. PICK h \in [Nat -> T] : \A pos \in Nat :
        h[pos] = IF pos \in done THEN stop[pos] ELSE join[<<pos, h[next[pos]]>>]
  <2> HIDE DEF done, stop, next, join, T, end
  <2> QED
    BY <1>1, ScanExists
<1>3. ASSUME NEW pos \in Nat, NEW f
      PROVE  Body(f)[pos] = IF pos >= Len(s) THEN <<>> ELSE Character(s, pos) \o f[NextCharacter(s, pos)]
  <2>1. ~ (pos >= Len(s)) => NextCharacter(s, pos) = pos + 1 + Going(s, pos)
    BY <1>0 DEF NextCharacter
  <2> QED
    BY <2>1
<1>4. ASSUME NEW pos \in Nat
      PROVE  h[pos] = IF pos >= Len(s) THEN <<>> ELSE Character(s, pos) \o h[NextCharacter(s, pos)]
  <2>1. NextCharacter(s, pos) \in Nat
    BY CharacterIs
  <2>2. h[NextCharacter(s, pos)] \in T
    BY <2>1
  <2>3. <<pos, h[NextCharacter(s, pos)]>> \in Nat \X T
    BY <2>2
  <2>4. join[<<pos, h[NextCharacter(s, pos)]>>] = CharacterThen(s, pos, h[NextCharacter(s, pos)])
    BY <2>3
  <2>5. next[pos] = NextCharacter(s, pos) /\ stop[pos] = <<>> /\ (pos \in done <=> pos >= end)
    OBVIOUS
  <2>6. end = Len(s)
    OBVIOUS
  <2> HIDE DEF done, stop, next, join, T, end
  <2>7. CASE pos >= end
    BY <1>2, <2>5, <2>6, <2>7
  <2>8. CASE ~ (pos >= end)
    <3>1. pos < Len(s) /\ ~ (pos >= Len(s))
      BY <1>0, <2>6, <2>8
    <3>2. h[pos] = CharacterThen(s, pos, h[NextCharacter(s, pos)])
      BY <1>2, <2>4, <2>5, <2>8
    <3> QED
      BY <3>1, <3>2 DEF CharacterThen
  <2> QED
    BY <2>7, <2>8
<1>5. h = Body(h)
  <2>1. h = [pos \in Nat |-> h[pos]]
    OBVIOUS
  <2>2. \A pos \in Nat : Body(h)[pos] = h[pos]
    <3> HIDE DEF Body
    <3> QED
      BY <1>3, <1>4
  <2>3. Body(h) = [pos \in Nat |-> Body(h)[pos]]
    OBVIOUS
  <2> HIDE DEF Body
  <2> QED
    BY <2>1, <2>2, <2>3
<1>6. F = Body(F)
  BY <1>5
<1>7. Decoded(s) = F[Start(s)]
  BY DEF Decoded, Start
<1> HIDE DEF F
<1>8. ASSUME NEW pos \in Nat
      PROVE  F[pos] = IF pos >= Len(s) THEN <<>> ELSE Character(s, pos) \o F[NextCharacter(s, pos)]
  <2>1. F[pos] = Body(F)[pos]
    BY <1>6
  <2> HIDE DEF Body
  <2> QED
    BY <1>3, <2>1
<1>9. F = [pos \in Nat |-> F[pos]]
  <2>1. Body(F) = [pos \in Nat |-> Body(F)[pos]]
    OBVIOUS
  <2> HIDE DEF Body
  <2> QED
    BY <1>6, <2>1
<1> HIDE DEF Body
<1> DEFINE Good == {pos \in Nat : F[pos] \in Seq(Octets)}
<1>10. ASSUME NEW pos \in Nat, pos >= end PROVE pos \in Good
  <2>1. F[pos] = <<>>
    BY <1>8, <1>10
  <2>2. <<>> \in Seq(Octets)
    OBVIOUS
  <2> HIDE DEF end
  <2> QED
    BY <2>1, <2>2
<1>11. ASSUME NEW pos \in Nat, \A q \in Nat : q > pos => q \in Good PROVE pos \in Good
  <2>1. CASE pos >= end
    BY <1>10, <2>1
  <2>2. CASE ~ (pos >= end)
    <3>1. pos < Len(s)
      BY <1>0, <2>2
    <3>2. Character(s, pos) \in Seq(Octets) /\ F[NextCharacter(s, pos)] \in Seq(Octets)
      BY <1>11, <3>1, CharacterIs
    <3>3. Character(s, pos) \o F[NextCharacter(s, pos)] \in Seq(Octets)
      BY <3>2
    <3> QED
      BY <1>8, <2>2, <3>3
  <2> QED
    BY <2>1, <2>2
<1>12. \A pos \in Nat : pos \in Good
  <2> HIDE DEF Good, end
  <2> QED
    BY <1>0, <1>10, <1>11, Backward
<1>13. F \in [Nat -> Seq(Octets)]
  BY <1>9, <1>12
<1> QED
  BY <1>7, <1>8, <1>13 DEF IsDecoding

(* What is decoded is bytes again.                                         *)
LEMMA DecodedIs ==
  ASSUME NEW s, IsBytes(s)
  PROVE  Decoded(s) \in Seq(Octets)
BY DecodingExists DEF IsDecoding, Start

(* A character that is all there in the cut is the same in the whole, with *)
(* the same next; one that is not is the last of the cut.                  *)
LEMMA CharacterAlike ==
  ASSUME NEW c, NEW d, IsCut(c, d), NEW pos \in Nat, pos < Len(c)
  PROVE  \/ /\ Character(c, pos) = Character(d, pos)
            /\ NextCharacter(c, pos) = NextCharacter(d, pos)
         \/ /\ Character(c, pos) = Replacement
            /\ NextCharacter(c, pos) = Len(c)
<1> DEFINE k == Going(c, pos)
           l == Going(d, pos)
           most == Behind(U8(c, pos))
<1>0. IsBytes(c) /\ IsBytes(d) /\ Len(c) \in Nat /\ Len(d) \in Nat /\ Len(c) <= Len(d) /\ pos < Len(d)
  BY BytesAre DEF IsCut
<1>1. U8(d, pos) = U8(c, pos)
  BY <1>0, ByteAlike DEF Has
<1>2. /\ k \in Nat /\ pos + 1 + k <= Len(c) /\ most \in -1..3
      /\ \A j \in 1..k : GoesOn(c, pos, j)
      /\ k <= most \/ (k = 0 /\ most = -1)
      /\ k < most => ~ GoesOn(c, pos, k + 1)
  BY <1>0, GoingIs
<1>3. /\ l \in Nat /\ pos + 1 + l <= Len(d)
      /\ \A j \in 1..l : GoesOn(d, pos, j)
      /\ l <= most \/ (l = 0 /\ most = -1)
      /\ l < most => ~ GoesOn(d, pos, l + 1)
  BY <1>0, <1>1, GoingIs
<1>4. ASSUME NEW j \in Nat, j >= 1, pos + j < Len(c) PROVE GoesOn(c, pos, j) <=> GoesOn(d, pos, j)
  <2>1. pos + j \in Nat /\ Has(c, pos + j, 1)
    BY <1>0, <1>4 DEF Has
  <2>2. Has(d, pos + j, 1) /\ U8(d, pos + j) = U8(c, pos + j)
    BY <2>1, ByteAlike
  <2> QED
    BY <1>1, <2>1, <2>2 DEF GoesOn
<1>5. NextCharacter(c, pos) = pos + 1 + k /\ NextCharacter(d, pos) = pos + 1 + l
  BY <1>0 DEF NextCharacter
<1>6. /\ Character(c, pos) = IF k = most THEN Slice(c, pos, pos + 1 + k) ELSE Replacement
      /\ Character(d, pos) = IF l = most THEN Slice(d, pos, pos + 1 + l) ELSE Replacement
  BY <1>1 DEF Character
<1> HIDE DEF k, l, most
<1>7. CASE k # most /\ pos + 1 + k = Len(c)
  BY <1>5, <1>6, <1>7
<1>8. CASE k = most \/ pos + 1 + k # Len(c)
  <2>1. k <= l
    <3> SUFFICES ASSUME l < k PROVE FALSE
      BY <1>2, <1>3
    <3>1. l + 1 \in 1..k /\ l + 1 \in Nat /\ l + 1 >= 1 /\ pos + (l + 1) < Len(c) /\ l < most
      BY <1>0, <1>2, <1>3
    <3>2. GoesOn(c, pos, l + 1)
      BY <1>2, <3>1
    <3>3. GoesOn(d, pos, l + 1)
      BY <1>4, <3>1, <3>2
    <3> QED
      BY <1>3, <3>1, <3>3
  <2>2. l <= k
    <3> SUFFICES ASSUME k < l PROVE FALSE
      BY <1>2, <1>3
    <3>1. k + 1 \in 1..l /\ k + 1 \in Nat /\ k + 1 >= 1 /\ pos + (k + 1) < Len(c) /\ k < most
      BY <1>0, <1>2, <1>3, <1>8
    <3>2. GoesOn(d, pos, k + 1)
      BY <1>3, <3>1
    <3>3. GoesOn(c, pos, k + 1)
      BY <1>4, <3>1, <3>2
    <3> QED
      BY <1>2, <3>1, <3>3
  <2>3. k = l
    BY <1>2, <1>3, <2>1, <2>2
  <2>4. pos + 1 + k \in Nat /\ pos + 1 + k <= Len(c)
    BY <1>2
  <2>5. Slice(c, pos, pos + 1 + k) = Slice(d, pos, pos + 1 + k)
    BY <2>4, SliceAlike
  <2> QED
    BY <1>5, <1>6, <2>3, <2>5
<1> QED
  BY <1>7, <1>8

(* A text that is cut off is a beginning of the text, or ends in a U+FFFD  *)
(* for the character that is torn.                                         *)
LEMMA DecodedAlike ==
  ASSUME NEW c, NEW d, IsCut(c, d)
  PROVE  Torn(Decoded(c), Decoded(d))
<1>0. IsBytes(c) /\ IsBytes(d) /\ Len(c) \in Nat /\ Len(d) \in Nat /\ Len(c) <= Len(d)
  BY BytesAre DEF IsCut
<1>1. PICK h : IsDecoding(c, h) /\ Decoded(c) = h[Start(c)]
  BY <1>0, DecodingExists
<1>2. PICK g : IsDecoding(d, g) /\ Decoded(d) = g[Start(d)]
  BY <1>0, DecodingExists
<1>3. /\ \A pos \in Nat : h[pos] \in Seq(Octets) /\ g[pos] \in Seq(Octets)
      /\ \A pos \in Nat : h[pos] = IF pos >= Len(c) THEN <<>>
                                   ELSE Character(c, pos) \o h[NextCharacter(c, pos)]
      /\ \A pos \in Nat : g[pos] = IF pos >= Len(d) THEN <<>>
                                   ELSE Character(d, pos) \o g[NextCharacter(d, pos)]
  BY <1>1, <1>2 DEF IsDecoding
<1>4. Torn(<<>>, <<>>) /\ Replacement \in Seq(Octets)
  BY DEF Torn, IsPrefix, Replacement, Octets
<1>5. ASSUME NEW y \in Seq(Octets) PROVE Torn(<<>>, y) /\ Torn(Replacement, y)
  <2>1. IsPrefix(<<>>, y)
    <3>1. SubSeq(y, 1, 0) = <<>> /\ Len(y) \in Nat
      OBVIOUS
    <3> QED
      BY <3>1 DEF IsPrefix
  <2>2. Replacement = SubSeq(y, 1, 0) \o Replacement /\ 0 \in 0..Len(y)
    <3>1. SubSeq(y, 1, 0) = <<>>
      OBVIOUS
    <3> QED
      BY <1>4, <3>1
  <2> QED
    BY <2>1, <2>2 DEF Torn
<1> DEFINE Good == {pos \in Nat : Torn(h[pos], g[pos])}
<1>6. ASSUME NEW pos \in Nat, pos >= Len(c) PROVE pos \in Good
  <2>1. h[pos] = <<>> /\ g[pos] \in Seq(Octets)
    BY <1>3, <1>6
  <2> QED
    BY <1>5, <2>1
<1>7. ASSUME NEW pos \in Nat, \A q \in Nat : q > pos => q \in Good PROVE pos \in Good
  <2>1. CASE pos >= Len(c)
    BY <1>6, <2>1
  <2>2. CASE ~ (pos >= Len(c))
    <3>1. pos < Len(c) /\ pos < Len(d)
      BY <1>0, <2>2
    <3> DEFINE q == NextCharacter(c, pos)
    <3>2. h[pos] = Character(c, pos) \o h[q]
      BY <1>3, <2>2
    <3>3. q \in Nat /\ q > pos /\ Character(c, pos) \in Seq(Octets)
      BY <1>0, <3>1, CharacterIs
    <3>4. CASE Character(c, pos) = Character(d, pos) /\ q = NextCharacter(d, pos)
      <4>1. g[pos] = Character(c, pos) \o g[q]
        <5>1. ~ (pos >= Len(d))
          BY <1>0, <3>1
        <5>2. g[pos] = Character(d, pos) \o g[NextCharacter(d, pos)]
          BY <1>3, <5>1
        <5> HIDE DEF q
        <5> QED
          BY <3>4, <5>2
      <4>2. Torn(h[q], g[q])
        BY <1>7, <3>3
      <4>3. h[q] \in Seq(Octets) /\ g[q] \in Seq(Octets)
        BY <1>3, <3>3
      <4> HIDE DEF q
      <4> QED
        BY <3>2, <3>3, <4>1, <4>2, <4>3, TornJoined
    <3>5. CASE Character(c, pos) = Replacement /\ q = Len(c)
      <4>1. h[q] = <<>>
        BY <1>0, <1>3, <3>5
      <4>2. h[pos] = Replacement
        BY <1>4, <3>2, <3>5, <4>1
      <4> QED
        BY <1>3, <1>5, <4>2
    <3> QED
      BY <3>1, <3>4, <3>5, CharacterAlike
  <2> QED
    BY <2>1, <2>2
<1>8. \A pos \in Nat : pos \in Good
  <2> HIDE DEF Good
  <2> QED
    BY <1>0, <1>6, <1>7, Backward
<1>9. CASE Start(c) = Start(d)
  <2>1. Start(c) \in Nat
    BY DEF Start
  <2> QED
    BY <1>1, <1>2, <1>8, <1>9, <2>1
<1>10. CASE Start(c) # Start(d)
  <2>1. \A i \in 1..Len(c) : c[i] = d[i]
    BY DEF IsCut
  <2>2. ASSUME NEW s, IsBytes(s)
        PROVE  IsPrefix(ByteOrderMark, s) <=> (Len(s) >= 3 /\ s[1] = 239 /\ s[2] = 187 /\ s[3] = 191)
    <3>1. Len(s) \in Nat /\ s \in Seq(Octets) /\ Len(<<239, 187, 191>>) = 3
      BY <2>2 DEF IsBytes
    <3>2. CASE Len(s) >= 3
      <4>0. ASSUME NEW t \in Seq(Octets), Len(t) >= 3 PROVE SubSeq(t, 1, 3) = <<t[1], t[2], t[3]>>
        <5>1. /\ SubSeq(t, 1, 3) \in Seq(Octets) /\ Len(SubSeq(t, 1, 3)) = 3
              /\ \A j \in 1..3 : SubSeq(t, 1, 3)[j] = t[j]
          BY <4>0
        <5> DEFINE z == SubSeq(t, 1, 3)
        <5>2. \A u \in Seq(Octets) : Len(u) = 3 => u = <<u[1], u[2], u[3]>>
          OBVIOUS
        <5>3. z = <<z[1], z[2], z[3]>>
          BY <5>1, <5>2
        <5>4. z[1] = t[1] /\ z[2] = t[2] /\ z[3] = t[3]
          BY <5>1
        <5> HIDE DEF z
        <5>5. z = <<t[1], t[2], t[3]>>
          BY <5>3, <5>4
        <5> QED
          BY <5>5 DEF z
      <4>1. SubSeq(s, 1, 3) = <<s[1], s[2], s[3]>>
        BY <3>1, <3>2, <4>0
      <4>2. SubSeq(<<239, 187, 191>>, 1, 3) = <<239, 187, 191>>
        <5>1. <<239, 187, 191>> \in Seq(Octets) /\ Len(<<239, 187, 191>>) >= 3
          BY DEF Octets
        <5> QED
          BY <4>0, <5>1
      <4>3. <<239, 187, 191>> = <<s[1], s[2], s[3]>> <=> (s[1] = 239 /\ s[2] = 187 /\ s[3] = 191)
        OBVIOUS
      <4> QED
        BY <3>1, <3>2, <4>1, <4>2, <4>3 DEF IsPrefix, ByteOrderMark
    <3>3. CASE ~ (Len(s) >= 3)
      BY <3>1, <3>3 DEF IsPrefix, ByteOrderMark
    <3> QED
      BY <3>2, <3>3
  <2>3. (Len(c) >= 3 /\ c[1] = 239 /\ c[2] = 187 /\ c[3] = 191)
          # (Len(d) >= 3 /\ d[1] = 239 /\ d[2] = 187 /\ d[3] = 191)
    BY <1>0, <1>10, <2>2 DEF Start
  <2>4. Len(c) < 3 /\ d[1] = 239 /\ d[2] = 187 /\ d[3] = 191
    BY <1>0, <2>1, <2>3
  <2>5. ~ IsPrefix(ByteOrderMark, c)
    BY <1>0, <2>2, <2>4
  <2>6. Start(c) = 0
    BY <2>5 DEF Start
  <2>7. Start(d) \in Nat
    BY DEF Start
  <2>8. g[Start(d)] \in Seq(Octets)
    BY <1>3, <2>7
  <2>9. CASE Len(c) = 0
    <3>1. h[0] = <<>>
      BY <1>3, <2>9
    <3> QED
      BY <1>1, <1>2, <1>5, <2>6, <2>8, <3>1
  <2>10. CASE Len(c) > 0
    <3>1. U8(c, 0) = 239
      BY <1>0, <2>1, <2>4, <2>10 DEF U8
    <3>2. Behind(239) = 2
      BY DEF Behind
    <3> DEFINE k == Going(c, 0)
    <3>3. k \in Nat /\ 0 + 1 + k <= Len(c) /\ (k < 2 => ~ GoesOn(c, 0, k + 1))
      BY <1>0, <2>10, <3>1, <3>2, GoingIs
    <3>4. Len(c) = 2 => GoesOn(c, 0, 1)
      <4>1. Len(c) = 2 => U8(c, 0 + 1) = 187
        BY <1>0, <2>1, <2>4 DEF U8
      <4> QED
        BY <3>1, <4>1 DEF GoesOn, Has
    <3>5. Character(c, 0) = IF k = Behind(U8(c, 0)) THEN Slice(c, 0, 0 + 1 + k) ELSE Replacement
      BY DEF Character
    <3>6. NextCharacter(c, 0) = 0 + 1 + k
      BY <2>10 DEF NextCharacter
    <3> HIDE DEF k
    <3>7. k + 1 = Len(c)
      <4>1. CASE k = 0
        <5>1. ~ GoesOn(c, 0, 1)
          BY <3>3, <4>1
        <5>2. Len(c) # 2
          BY <3>4, <5>1
        <5>3. Len(c) < 3
          BY <2>4
        <5>4. \A x \in Nat : x > 0 /\ x # 2 /\ x < 3 => 0 + 1 = x
          OBVIOUS
        <5>5. 0 + 1 = Len(c)
          BY <1>0, <2>10, <5>2, <5>3, <5>4
        <5> QED
          BY <4>1, <5>5
      <4>2. CASE k # 0
        BY <1>0, <2>4, <3>3, <4>2
      <4> QED
        BY <4>1, <4>2
    <3>8. Character(c, 0) = Replacement
      BY <1>0, <2>4, <3>1, <3>2, <3>3, <3>5, <3>7
    <3>9. NextCharacter(c, 0) = Len(c)
      BY <1>0, <3>3, <3>6, <3>7
    <3>10. h[Len(c)] = <<>> /\ h[0] = Replacement \o h[Len(c)]
      <4>1. Len(c) >= Len(c) /\ ~ (0 >= Len(c)) /\ 0 \in Nat
        BY <1>0, <2>10
      <4>2. h[Len(c)] = <<>>
        BY <1>0, <1>3, <4>1
      <4>3. h[0] = Character(c, 0) \o h[NextCharacter(c, 0)]
        BY <1>3, <4>1
      <4> QED
        BY <3>8, <3>9, <4>2, <4>3
    <3>11. h[0] = Replacement
      BY <1>4, <3>10
    <3> QED
      BY <1>1, <1>2, <1>5, <2>6, <2>8, <3>11
  <2> QED
    BY <1>0, <2>9, <2>10
<1> QED
  BY <1>9, <1>10

(* Well-formed UTF-8, by the table of the Unicode standard: a character of *)
(* k bytes behind byte i, and a text of nothing but characters, which do   *)
(* not begin with a byte order mark.                                       *)
Later == 128..191
AreCharacter(k, a, x, y, z) ==
  \/ k = 1 /\ a \in 0..127
  \/ k = 2 /\ a \in 194..223 /\ x \in Later
  \/ /\ k = 3 /\ y \in Later
     /\ \/ a = 224 /\ x \in 160..191
        \/ a \in 225..239 \ {237} /\ x \in Later
        \/ a = 237 /\ x \in 128..159
  \/ /\ k = 4 /\ y \in Later /\ z \in Later
     /\ \/ a = 240 /\ x \in 144..191
        \/ a \in 241..243 /\ x \in Later
        \/ a = 244 /\ x \in 128..143
IsCharacter(t, i, k) ==
  i + k <= Len(t) /\ AreCharacter(k, t[i + 1], t[i + 2], t[i + 3], t[i + 4])
IsText(t) ==
  /\ IsBytes(t) /\ ~ IsPrefix(ByteOrderMark, t)
  /\ \E places \in SUBSET Nat :
       /\ 0 \in places
       /\ \A i \in places : i = Len(t) \/ \E k \in 1..4 : IsCharacter(t, i, k) /\ i + k \in places

LEMMA CharacterBytes ==
  ASSUME NEW k, NEW a, NEW x, NEW y, NEW z, AreCharacter(k, a, x, y, z)
  PROVE  /\ Behind(a) = k - 1
         /\ k > 1 => /\ x \in 128..191
                     /\ a = 224 => x >= 160
                     /\ a = 237 => x < 160
                     /\ a = 240 => x >= 144
                     /\ a = 244 => x < 144
         /\ k > 2 => y \in 128..191
         /\ k > 3 => z \in 128..191
<1>0. /\ a \in 0..127 => Behind(a) = 0
      /\ a \in 194..223 => Behind(a) = 1
      /\ a \in 224..239 => Behind(a) = 2
      /\ a \in 240..244 => Behind(a) = 3
  <2>1. a \in 0..127 => Behind(a) = 0
    BY DEF Behind
  <2>2. a \in 194..223 => Behind(a) = 1
    BY DEF Behind
  <2>3. a \in 224..239 => Behind(a) = 2
    BY DEF Behind
  <2>4. a \in 240..244 => Behind(a) = 3
    BY DEF Behind
  <2> QED
    BY <2>1, <2>2, <2>3, <2>4
<1>1. CASE k = 1 /\ a \in 0..127
  BY <1>0, <1>1
<1>2. CASE k = 2 /\ a \in 194..223 /\ x \in Later
  BY <1>0, <1>2 DEF Later
<1>3. CASE k = 3 /\ y \in Later /\ a = 224 /\ x \in 160..191
  BY <1>0, <1>3 DEF Later
<1>4. CASE k = 3 /\ y \in Later /\ a \in 225..239 \ {237} /\ x \in Later
  BY <1>0, <1>4 DEF Later
<1>5. CASE k = 3 /\ y \in Later /\ a = 237 /\ x \in 128..159
  BY <1>0, <1>5 DEF Later
<1>6. CASE k = 4 /\ y \in Later /\ z \in Later /\ a = 240 /\ x \in 144..191
  BY <1>0, <1>6 DEF Later
<1>7. CASE k = 4 /\ y \in Later /\ z \in Later /\ a \in 241..243 /\ x \in Later
  BY <1>0, <1>7 DEF Later
<1>8. CASE k = 4 /\ y \in Later /\ z \in Later /\ a = 244 /\ x \in 128..143
  BY <1>0, <1>8 DEF Later
<1> QED
  BY <1>1, <1>2, <1>3, <1>4, <1>5, <1>6, <1>7, <1>8 DEF AreCharacter

(* Two parts of a text, one behind the other.                              *)
LEMMA Between ==
  ASSUME NEW x \in Seq(Octets), NEW m \in 0..Len(x), NEW e \in 0..Len(x), m <= e
  PROVE  SubSeq(x, m + 1, e) \o SubSeq(x, e + 1, Len(x)) = SubSeq(x, m + 1, Len(x))
<1> DEFINE y == SubSeq(x, m + 1, e)
           z == SubSeq(x, e + 1, Len(x))
           u == SubSeq(x, m + 1, Len(x))
<1>0. Len(x) \in Nat /\ m \in Nat /\ e \in Nat /\ m <= Len(x) /\ e <= Len(x)
  OBVIOUS
<1>1. \A p, q \in 0..Len(x) : p <= q =>
        /\ SubSeq(x, p + 1, q) \in Seq(Octets) /\ Len(SubSeq(x, p + 1, q)) = q - p
        /\ \A j \in 1..(q - p) : SubSeq(x, p + 1, q)[j] = x[p + j]
  OBVIOUS
<1>2. /\ y \in Seq(Octets) /\ Len(y) = e - m /\ \A j \in 1..(e - m) : y[j] = x[m + j]
      /\ z \in Seq(Octets) /\ Len(z) = Len(x) - e /\ \A j \in 1..(Len(x) - e) : z[j] = x[e + j]
      /\ u \in Seq(Octets) /\ Len(u) = Len(x) - m /\ \A j \in 1..(Len(x) - m) : u[j] = x[m + j]
  BY <1>0, <1>1
<1> HIDE DEF y, z, u
<1>3. /\ y \o z \in Seq(Octets) /\ Len(y \o z) = Len(y) + Len(z)
      /\ \A j \in 1..Len(y \o z) : (y \o z)[j] = IF j <= Len(y) THEN y[j] ELSE z[j - Len(y)]
  BY <1>2
<1>4. ASSUME NEW j \in Nat, 1 <= j, j <= Len(u) PROVE (y \o z)[j] = u[j]
  <2>1. j \in 1..Len(y \o z) /\ j \in 1..(Len(x) - m)
    BY <1>0, <1>2, <1>3, <1>4
  <2>2. CASE j <= Len(y)
    <3>1. j \in 1..(e - m)
      BY <1>0, <1>2, <1>4, <2>2
    <3> QED
      BY <1>2, <1>3, <2>1, <2>2, <3>1
  <2>3. CASE ~ (j <= Len(y))
    <3>1. j - Len(y) \in 1..(Len(x) - e) /\ e + (j - Len(y)) = m + j
      BY <1>0, <1>2, <1>4, <2>1, <2>3
    <3> QED
      BY <1>2, <1>3, <2>1, <2>3, <3>1
  <2> QED
    BY <2>2, <2>3
<1>5. Len(y \o z) = Len(u)
  BY <1>0, <1>2, <1>3
<1>6. y \o z = u
  BY <1>2, <1>3, <1>4, <1>5, SameSequence
<1> QED
  BY <1>6 DEF y, z, u

(* A character is decoded as it is.                                        *)
LEMMA CharacterIsKept ==
  ASSUME NEW t, IsBytes(t), NEW i \in Nat, i < Len(t), NEW k \in 1..4, IsCharacter(t, i, k)
  PROVE  Going(t, i) = k - 1 /\ Character(t, i) = SubSeq(t, i + 1, i + k)
<1>0. Len(t) \in Nat /\ i + k <= Len(t)
  BY BytesAre DEF IsCharacter
<1>1. U8(t, i) = t[i + 1]
  BY DEF U8
<1>2. Behind(U8(t, i)) = k - 1
  BY <1>1, CharacterBytes DEF IsCharacter
<1>8. /\ k > 1 => /\ t[i + 2] \in 128..191
                  /\ t[i + 1] = 224 => t[i + 2] >= 160
                  /\ t[i + 1] = 237 => t[i + 2] < 160
                  /\ t[i + 1] = 240 => t[i + 2] >= 144
                  /\ t[i + 1] = 244 => t[i + 2] < 144
      /\ k > 2 => t[i + 3] \in 128..191
      /\ k > 3 => t[i + 4] \in 128..191
  <2> DEFINE a == t[i + 1]
             x == t[i + 2]
             y == t[i + 3]
             z == t[i + 4]
  <2>1. AreCharacter(k, a, x, y, z)
    BY DEF IsCharacter
  <2> HIDE DEF a, x, y, z
  <2>2. /\ k > 1 => /\ x \in 128..191
                    /\ a = 224 => x >= 160
                    /\ a = 237 => x < 160
                    /\ a = 240 => x >= 144
                    /\ a = 244 => x < 144
        /\ k > 2 => y \in 128..191
        /\ k > 3 => z \in 128..191
    BY <2>1, CharacterBytes
  <2> QED
    BY <2>2 DEF a, x, y, z
<1>3. ASSUME NEW j \in 1..(k - 1) PROVE GoesOn(t, i, j)
  <2>1. Has(t, i + j, 1)
    BY <1>0 DEF Has
  <2>2. U8(t, i + j) = t[i + 1 + j]
    <3>1. i + j + 1 = i + 1 + j
      OBVIOUS
    <3> QED
      BY <3>1 DEF U8
  <2>3. i + 1 + 1 = i + 2 /\ i + 1 + 2 = i + 3 /\ i + 1 + 3 = i + 4
    OBVIOUS
  <2>4. CASE j = 1
    <3>1. /\ t[i + 2] \in 128..191
          /\ t[i + 1] = 224 => t[i + 2] >= 160
          /\ t[i + 1] = 237 => t[i + 2] < 160
          /\ t[i + 1] = 240 => t[i + 2] >= 144
          /\ t[i + 1] = 244 => t[i + 2] < 144
      BY <1>8, <2>4
    <3>2. U8(t, i + j) = t[i + 2]
      BY <2>2, <2>3, <2>4
    <3> QED
      BY <1>1, <2>1, <3>1, <3>2 DEF GoesOn
  <2>5. CASE j = 2
    <3>1. t[i + 3] \in 128..191
      BY <1>8, <2>5
    <3>2. U8(t, i + j) = t[i + 3]
      BY <2>2, <2>3, <2>5
    <3>3. ~ (j = 1)
      BY <2>5
    <3> QED
      BY <2>1, <3>1, <3>2, <3>3 DEF GoesOn
  <2>6. CASE j = 3
    <3>1. t[i + 4] \in 128..191
      BY <1>8, <2>6
    <3>2. U8(t, i + j) = t[i + 4]
      BY <2>2, <2>3, <2>6
    <3>3. ~ (j = 1)
      BY <2>6
    <3> QED
      BY <2>1, <3>1, <3>2, <3>3 DEF GoesOn
  <2> QED
    BY <2>4, <2>5, <2>6
<1> DEFINE g == Going(t, i)
<1>4. g \in Nat /\ (g <= k - 1 \/ (g = 0 /\ k - 1 = -1)) /\ (g < k - 1 => ~ GoesOn(t, i, g + 1))
  BY <1>2, GoingIs
<1>5. Character(t, i) = IF g = k - 1 THEN Slice(t, i, i + 1 + g) ELSE Replacement
  BY <1>2 DEF Character
<1> HIDE DEF g
<1>6. g = k - 1
  BY <1>3, <1>4
<1>7. i + 1 + g = i + k /\ ~ (i + k > Len(t))
  BY <1>0, <1>6
<1>9. Slice(t, i, i + k) = SubSeq(t, i + 1, i + k)
  BY <1>7 DEF Slice
<1> QED
  BY <1>5, <1>6, <1>7, <1>9 DEF g

(* A well-formed text comes out as it is (wire.ts:213, 226, 357): of what  *)
(* is in a message only what is none, is in chunks that are none, or begins*)
(* with a byte order mark comes out other than it was sent.                *)
THEOREM TextIsKept == \A t : IsText(t) => Decoded(t) = t
<1> SUFFICES ASSUME NEW t, IsText(t) PROVE Decoded(t) = t
  OBVIOUS
<1>0. IsBytes(t) /\ Len(t) \in Nat
  BY BytesAre DEF IsText
<1>1. PICK h : IsDecoding(t, h) /\ Decoded(t) = h[Start(t)]
  BY <1>0, DecodingExists
<1>2. PICK places \in SUBSET Nat :
        /\ 0 \in places
        /\ \A i \in places : i = Len(t) \/ \E k \in 1..4 : IsCharacter(t, i, k) /\ i + k \in places
  BY DEF IsText
<1>3. \A pos \in Nat : h[pos] = IF pos >= Len(t) THEN <<>>
                                 ELSE Character(t, pos) \o h[NextCharacter(t, pos)]
  BY <1>1 DEF IsDecoding
<1> DEFINE Good == {pos \in Nat : pos \in places => h[pos] = SubSeq(t, pos + 1, Len(t))}
<1>4. ASSUME NEW pos \in Nat, pos > Len(t) PROVE pos \notin places
  <2>1. ~ \E k \in 1..4 : IsCharacter(t, pos, k)
    BY <1>0, <1>4 DEF IsCharacter
  <2> QED
    BY <1>0, <1>2, <1>4, <2>1
<1>5. ASSUME NEW pos \in Nat, pos >= Len(t) PROVE pos \in Good
  <2>1. CASE pos = Len(t)
    <3>1. h[pos] = <<>>
      BY <1>3, <1>5
    <3>2. SubSeq(t, Len(t) + 1, Len(t)) = <<>>
      BY <1>0 DEF IsBytes
    <3> QED
      BY <2>1, <3>1, <3>2
  <2>2. CASE pos # Len(t)
    BY <1>0, <1>4, <1>5, <2>2
  <2> QED
    BY <2>1, <2>2
<1>6. ASSUME NEW pos \in Nat, \A q \in Nat : q > pos => q \in Good PROVE pos \in Good
  <2>1. CASE pos >= Len(t)
    BY <1>5, <2>1
  <2>2. CASE ~ (pos >= Len(t)) /\ pos \notin places
    BY <2>2
  <2>3. CASE ~ (pos >= Len(t)) /\ pos \in places
    <3>1. pos < Len(t)
      BY <1>0, <2>3
    <3>2. PICK k \in 1..4 : IsCharacter(t, pos, k) /\ pos + k \in places
      BY <1>2, <2>3, <3>1
    <3>3. Going(t, pos) = k - 1 /\ Character(t, pos) = SubSeq(t, pos + 1, pos + k)
      BY <1>0, <3>1, <3>2, CharacterIsKept
    <3>4. NextCharacter(t, pos) = pos + k
      BY <3>1, <3>3 DEF NextCharacter
    <3>5. pos + k \in Nat /\ pos + k > pos /\ pos + k <= Len(t)
      BY <3>2 DEF IsCharacter
    <3>6. h[pos + k] = SubSeq(t, pos + k + 1, Len(t))
      BY <1>6, <3>2, <3>5
    <3>7. h[pos] = SubSeq(t, pos + 1, pos + k) \o SubSeq(t, pos + k + 1, Len(t))
      BY <1>3, <2>3, <3>3, <3>4, <3>6
    <3>8. h[pos] = SubSeq(t, pos + 1, Len(t))
      <4>1. ASSUME NEW x \in Seq(Octets), NEW m \in 0..Len(x), NEW e \in 0..Len(x), m <= e
            PROVE  SubSeq(x, m + 1, e) \o SubSeq(x, e + 1, Len(x)) = SubSeq(x, m + 1, Len(x))
        BY <4>1, Between
      <4>2. pos \in 0..Len(t) /\ pos + k \in 0..Len(t) /\ pos <= pos + k
        BY <1>0, <3>1, <3>5
      <4> QED
        BY <1>0, <3>7, <4>1, <4>2 DEF IsBytes
    <3> QED
      BY <3>8
  <2> QED
    BY <2>1, <2>2, <2>3
<1>7. \A pos \in Nat : pos \in Good
  <2> HIDE DEF Good
  <2> QED
    BY <1>0, <1>5, <1>6, Backward
<1>8. h[0] = SubSeq(t, 0 + 1, Len(t))
  BY <1>2, <1>7
<1>9. SubSeq(t, 1, Len(t)) = t
  BY <1>0 DEF IsBytes
<1>10. Start(t) = 0
  BY DEF Start, IsText
<1> QED
  BY <1>1, <1>8, <1>9, <1>10

-----------------------------------------------------------------------------
(* Texts *)

(* decodeTxt: the chunks of a text, from each byte on.                     *)
TextReads == [ok : BOOLEAN, value : Seq(Octets), next : Nat]
NextChunk(b, pos) == IF Counted8(b, pos).ok THEN Counted8(b, pos).next ELSE pos + 1
ChunkThen(b, pos, r) ==
  IF Counted8(b, pos).ok THEN [r EXCEPT !.value = Decoded(Counted8(b, pos).value) \o @] ELSE Throws
IsTextScan(b, end, h) ==
  /\ h \in [Nat -> TextReads]
  /\ \A pos \in Nat : h[pos] = IF pos >= end THEN Read(<<>>, pos)
                               ELSE ChunkThen(b, pos, h[NextChunk(b, pos)])

(* A step goes forward, and what it returns is of the set.                 *)
LEMMA ChunkIs ==
  ASSUME NEW b, IsBytes(b), NEW pos \in Nat
  PROVE  /\ NextChunk(b, pos) \in Nat /\ NextChunk(b, pos) > pos
         /\ \A r \in TextReads : ChunkThen(b, pos, r) \in TextReads
<1>0. IsCut(b, b)
  BY CutOfItself
<1>1. CASE Counted8(b, pos).ok
  <2>1. /\ Counted8(b, pos).next \in Nat /\ pos < Counted8(b, pos).next
        /\ Counted8(b, pos).value \in Seq(Octets)
    BY <1>0, <1>1, Counted8Alike
  <2> SUFFICES ASSUME NEW r \in TextReads PROVE ChunkThen(b, pos, r) \in TextReads
    BY <1>1, <2>1 DEF NextChunk
  <2>2. r.value \in Seq(Octets)
    BY DEF TextReads
  <2>3. Decoded(Counted8(b, pos).value) \in Seq(Octets)
    BY <2>1, DecodedIs DEF IsBytes
  <2>4. Decoded(Counted8(b, pos).value) \o r.value \in Seq(Octets)
    BY <2>2, <2>3
  <2> QED
    BY <1>1, <2>4 DEF ChunkThen, TextReads
<1>2. CASE ~ Counted8(b, pos).ok
  <2>1. Throws \in TextReads
    BY DEF Throws, TextReads
  <2> QED
    BY <1>2, <2>1 DEF NextChunk, ChunkThen
<1> QED
  BY <1>1, <1>2

(* The recursion of decodeTxt has a solution.                              *)
LEMMA TextScanExists ==
  ASSUME NEW b, IsBytes(b), NEW end \in Nat
  PROVE  \E h : IsTextScan(b, end, h) /\ \A at : Text(b, at, end) = h[at]
<1> DEFINE done == {pos \in Nat : pos >= end}
           stop == [pos \in Nat |-> Read(<<>>, pos)]
           next == [pos \in Nat |-> NextChunk(b, pos)]
           join == [p \in Nat \X TextReads |-> ChunkThen(b, p[1], p[2])]
           Body(Chunks) ==
             [pos \in Nat |->
                IF pos >= end THEN Read(<<>>, pos)
                ELSE LET chunk == Counted8(b, pos)
                     IN  IF chunk.ok
                         THEN [Chunks[chunk.next] EXCEPT !.value = Decoded(chunk.value) \o @]
                         ELSE Throws]
           F == CHOOSE Chunks : Chunks = Body(Chunks)
<1>1. IsScan(TextReads, end, done, stop, next, join)
  <2>1. stop \in [Nat -> TextReads]
    <3>1. \A pos \in Nat : Read(<<>>, pos) \in TextReads
      BY DEF Read, TextReads
    <3> QED
      BY <3>1
  <2>2. \A pos \in Nat : next[pos] \in Nat /\ next[pos] > pos
    BY ChunkIs
  <2>3. next \in [Nat -> Nat]
    BY <2>2
  <2>4. \A p \in Nat \X TextReads : ChunkThen(b, p[1], p[2]) \in TextReads
    BY ChunkIs
  <2>5. join \in [Nat \X TextReads -> TextReads]
    BY <2>4
  <2>6. \A pos \in Nat : pos >= end => pos \in done
    OBVIOUS
  <2> HIDE DEF done, stop, next, join
  <2> QED
    BY <2>1, <2>2, <2>3, <2>5, <2>6 DEF IsScan
<1>2. PICK h \in [Nat -> TextReads] : \A pos \in Nat :
        h[pos] = IF pos \in done THEN stop[pos] ELSE join[<<pos, h[next[pos]]>>]
  <2> HIDE DEF done, stop, next, join
  <2> QED
    BY <1>1, ScanExists
<1>3. ASSUME NEW pos \in Nat, NEW f \in [Nat -> TextReads]
      PROVE  Body(f)[pos] = IF pos >= end THEN Read(<<>>, pos)
                            ELSE ChunkThen(b, pos, f[NextChunk(b, pos)])
  BY DEF ChunkThen, NextChunk
<1>4. ASSUME NEW pos \in Nat
      PROVE  h[pos] = IF pos >= end THEN Read(<<>>, pos) ELSE ChunkThen(b, pos, h[NextChunk(b, pos)])
  <2>1. NextChunk(b, pos) \in Nat
    BY ChunkIs
  <2>2. h[NextChunk(b, pos)] \in TextReads
    BY <2>1
  <2>3. <<pos, h[NextChunk(b, pos)]>> \in Nat \X TextReads
    BY <2>2
  <2>4. join[<<pos, h[NextChunk(b, pos)]>>] = ChunkThen(b, pos, h[NextChunk(b, pos)])
    BY <2>3
  <2>5. next[pos] = NextChunk(b, pos) /\ stop[pos] = Read(<<>>, pos) /\ (pos \in done <=> pos >= end)
    OBVIOUS
  <2> HIDE DEF done, stop, next, join
  <2> QED
    BY <1>2, <2>4, <2>5
<1>5. h = Body(h)
  <2>1. h = [pos \in Nat |-> h[pos]]
    OBVIOUS
  <2>2. \A pos \in Nat : Body(h)[pos] = h[pos]
    <3> HIDE DEF Body
    <3> QED
      BY <1>3, <1>4
  <2>3. Body(h) = [pos \in Nat |-> Body(h)[pos]]
    OBVIOUS
  <2> HIDE DEF Body
  <2> QED
    BY <2>1, <2>2, <2>3
<1>6. F = Body(F)
  BY <1>5
<1>7. \A at : Text(b, at, end) = F[at]
  BY DEF Text
<1> HIDE DEF F
<1>8. ASSUME NEW pos \in Nat
      PROVE  F[pos] = IF pos >= end THEN Read(<<>>, pos) ELSE ChunkThen(b, pos, F[NextChunk(b, pos)])
  BY <1>6 DEF ChunkThen, NextChunk
<1> HIDE DEF Body
<1> DEFINE Good == {pos \in Nat : F[pos] \in TextReads}
<1>9. ASSUME NEW pos \in Nat, pos >= end PROVE pos \in Good
  <2>1. F[pos] = Read(<<>>, pos)
    BY <1>8, <1>9
  <2>2. <<>> \in Seq(Octets)
    OBVIOUS
  <2>3. Read(<<>>, pos) \in TextReads
    BY <2>2 DEF Read, TextReads
  <2> QED
    BY <2>1, <2>3
<1>10. ASSUME NEW pos \in Nat, \A q \in Nat : q > pos => q \in Good PROVE pos \in Good
  <2>1. F[NextChunk(b, pos)] \in TextReads
    BY <1>10, ChunkIs
  <2>2. ChunkThen(b, pos, F[NextChunk(b, pos)]) \in TextReads
    BY <2>1, ChunkIs
  <2>3. pos >= end => pos \in Good
    BY <1>9
  <2> QED
    BY <1>8, <2>2, <2>3
<1>11. \A pos \in Nat : F[pos] \in TextReads
  <2>1. \A pos \in Nat : pos \in Good
    <3> HIDE DEF Good
    <3> QED
      BY <1>9, <1>10, Backward
  <2> QED
    BY <2>1
<1>12. F = [pos \in Nat |-> F[pos]]
  BY <1>6 DEF Body
<1>13. F \in [Nat -> TextReads]
  BY <1>11, <1>12
<1> QED
  BY <1>7, <1>8, <1>13 DEF IsTextScan

(* Where the next field of the cut is, there it is of the whole; what is   *)
(* read is the text of the whole, or that torn.                            *)
ButTorn(r, s) == r.ok => s.ok /\ s.next = r.next /\ Torn(r.value, s.value)

(* A chunk that is cut short is the last one.                              *)
LEMMA TextAlike ==
  ASSUME NEW b, NEW w, IsCut(b, w), NEW end \in Nat, NEW at \in Nat
  PROVE  /\ Text(b, at, end) \in TextReads
         /\ ButTorn(Text(b, at, end), Text(w, at, end))
<1>0. IsBytes(b) /\ IsBytes(w) /\ Len(b) \in Nat
  BY BytesAre DEF IsCut
<1>1. PICK h : IsTextScan(b, end, h) /\ \A i : Text(b, i, end) = h[i]
  BY <1>0, TextScanExists
<1>2. PICK g : IsTextScan(w, end, g) /\ \A i : Text(w, i, end) = g[i]
  BY <1>0, TextScanExists
<1>3. /\ \A pos \in Nat : h[pos] \in TextReads /\ g[pos] \in TextReads
      /\ \A pos \in Nat : h[pos] = IF pos >= end THEN Read(<<>>, pos)
                                   ELSE ChunkThen(b, pos, h[NextChunk(b, pos)])
      /\ \A pos \in Nat : g[pos] = IF pos >= end THEN Read(<<>>, pos)
                                   ELSE ChunkThen(w, pos, g[NextChunk(w, pos)])
  BY <1>1, <1>2 DEF IsTextScan
<1> DEFINE Good == {pos \in Nat : ButTorn(h[pos], g[pos])}
<1>4. ASSUME NEW pos \in Nat, pos >= end
      PROVE  h[pos] = Read(<<>>, pos) /\ g[pos] = Read(<<>>, pos) /\ pos \in Good
  <2>1. h[pos] = Read(<<>>, pos) /\ g[pos] = Read(<<>>, pos)
    BY <1>3, <1>4
  <2>2. Torn(<<>>, <<>>)
    BY DEF IsPrefix, Torn
  <2> QED
    BY <2>1, <2>2 DEF ButTorn, Read
<1>5. ASSUME NEW pos \in Nat, \A q \in Nat : q > pos => q \in Good PROVE pos \in Good
  <2>1. CASE pos >= end
    BY <1>4, <2>1
  <2>2. CASE ~ (pos >= end)
    <3> SUFFICES ASSUME h[pos].ok PROVE ButTorn(h[pos], g[pos])
      BY DEF ButTorn
    <3> DEFINE c == Counted8(b, pos)
               d == Counted8(w, pos)
               q == c.next
               r == h[q]
               s == g[q]
    <3>1. h[pos] = ChunkThen(b, pos, h[NextChunk(b, pos)])
      BY <1>3, <2>2
    <3>2. c.ok
      BY <3>1 DEF ChunkThen, Throws
    <3>3. /\ d.ok /\ d.next = q /\ q \in Nat /\ pos < q
          /\ c.value \in Seq(Octets) /\ d.value \in Seq(Octets)
          /\ Torn(Decoded(c.value), Decoded(d.value))
          /\ Decoded(c.value) \in Seq(Octets) /\ Decoded(d.value) \in Seq(Octets)
          /\ q <= Len(b) => d.value = c.value
      <4>1. /\ d.ok /\ d.next = q /\ q \in Nat /\ pos < q
            /\ c.value \in Seq(Octets) /\ d.value \in Seq(Octets)
            /\ IsPrefix(c.value, d.value)
            /\ q <= Len(b) => d.value = c.value
        BY <3>2, Counted8Alike
      <4> HIDE DEF c, d, q
      <4>2. IsCut(c.value, d.value)
        BY <4>1, BeginningIsCut
      <4>3. /\ Torn(Decoded(c.value), Decoded(d.value))
            /\ Decoded(c.value) \in Seq(Octets) /\ Decoded(d.value) \in Seq(Octets)
        BY <4>1, <4>2, DecodedAlike, DecodedIs DEF IsBytes
      <4> QED
        BY <4>1, <4>3
    <3>4. h[pos] = [r EXCEPT !.value = Decoded(c.value) \o @]
      BY <3>1, <3>2 DEF ChunkThen, NextChunk
    <3>5. g[pos] = [s EXCEPT !.value = Decoded(d.value) \o @]
      BY <1>3, <2>2, <3>3 DEF ChunkThen, NextChunk
    <3>6. r \in TextReads /\ s \in TextReads
      BY <1>3, <3>3
    <3>7. ButTorn(r, s)
      BY <1>5, <3>3
    <3>8. ASSUME ~ (q <= Len(b)), r.ok PROVE r.value = <<>> /\ s.value = <<>>
      <4>1. CASE q >= end
        <5>1. h[q] = Read(<<>>, q) /\ g[q] = Read(<<>>, q)
          BY <1>4, <3>3, <4>1
        <5> QED
          BY <5>1 DEF Read
      <4>2. CASE ~ (q >= end)
        <5>1. ~ Has(b, q, 1)
          BY <1>0, <3>3, <3>8 DEF Has
        <5>2. h[q] = ChunkThen(b, q, h[NextChunk(b, q)])
          BY <1>3, <3>3, <4>2
        <5>3. ~ Counted8(b, q).ok
          BY <5>1 DEF Counted8, Throws
        <5>4. ~ h[q].ok
          BY <5>2, <5>3 DEF ChunkThen, Throws
        <5> QED
          BY <3>8, <5>4
      <4> QED
        BY <4>1, <4>2
    <3> HIDE DEF c, d, q, r, s
    <3>9. r.ok /\ h[pos].next = r.next /\ h[pos].value = Decoded(c.value) \o r.value
      BY <3>4, <3>6 DEF TextReads
    <3>10. g[pos].ok = s.ok /\ g[pos].next = s.next /\ g[pos].value = Decoded(d.value) \o s.value
      BY <3>5, <3>6 DEF TextReads
    <3>11. s.ok /\ s.next = r.next /\ Torn(r.value, s.value)
      BY <3>7, <3>9 DEF ButTorn
    <3>12. r.value \in Seq(Octets) /\ s.value \in Seq(Octets)
      BY <3>6 DEF TextReads
    <3>13. Torn(Decoded(c.value) \o r.value, Decoded(d.value) \o s.value)
      <4>1. CASE q <= Len(b)
        BY <3>3, <3>11, <3>12, <4>1, TornJoined
      <4>2. CASE ~ (q <= Len(b))
        <5>1. r.value = <<>> /\ s.value = <<>>
          BY <3>8, <3>9, <4>2
        <5>2. \A x \in Seq(Octets) : x \o <<>> = x
          OBVIOUS
        <5>3. Decoded(c.value) \o <<>> = Decoded(c.value) /\ Decoded(d.value) \o <<>> = Decoded(d.value)
          BY <3>3, <5>2
        <5> QED
          BY <3>3, <5>1, <5>3
      <4> QED
        BY <4>1, <4>2
    <3> QED
      BY <3>9, <3>10, <3>11, <3>13 DEF ButTorn
  <2> QED
    BY <2>1, <2>2
<1>6. \A pos \in Nat : pos \in Good
  <2>1. \A pos \in Nat : pos >= end => pos \in Good
    BY <1>4
  <2> HIDE DEF Good
  <2> QED
    BY <1>5, <2>1, Backward
<1>7. at \in Good
  BY <1>6
<1> QED
  BY <1>1, <1>2, <1>3, <1>7

-----------------------------------------------------------------------------
(* Bit maps *)

(* decodeTypeBitmap: the windows, from each byte on.                       *)
TypesReads == [ok : BOOLEAN, value : Seq(SUBSET Nat), next : Nat]
HasWindow(b, pos) == Has(b, pos, 2) /\ Has(b, pos + 2, U8(b, pos + 1))
NextWindow(b, pos) == IF HasWindow(b, pos) THEN pos + 2 + U8(b, pos + 1) ELSE pos + 1
WindowThen(b, pos, r) ==
  IF HasWindow(b, pos) THEN [r EXCEPT !.value = <<Window(b, pos)>> \o @] ELSE Throws
IsTypesScan(b, end, h) ==
  /\ h \in [Nat -> TypesReads]
  /\ \A pos \in Nat : h[pos] = IF pos + 2 > end THEN Read(<<>>, pos)
                               ELSE WindowThen(b, pos, h[NextWindow(b, pos)])

(* A window is read of all its bytes or not at all.                        *)
LEMMA WindowAlike ==
  ASSUME NEW b, NEW w, IsCut(b, w), NEW pos \in Nat, HasWindow(b, pos)
  PROVE  /\ HasWindow(w, pos) /\ Window(b, pos) = Window(w, pos) /\ Window(b, pos) \in SUBSET Nat
         /\ NextWindow(b, pos) \in Nat /\ NextWindow(b, pos) > pos
         /\ NextWindow(w, pos) = NextWindow(b, pos)
<1>0. Len(b) \in Nat /\ Len(w) \in Nat /\ Len(b) <= Len(w)
  BY BytesAre DEF IsCut
<1>1. Has(b, pos, 2) /\ Has(b, pos + 2, U8(b, pos + 1))
  BY DEF HasWindow
<1>2. Has(b, pos, 1) /\ Has(b, pos + 1, 1) /\ Has(w, pos, 2)
  BY <1>0, <1>1 DEF Has
<1>3. U8(w, pos) = U8(b, pos) /\ U8(b, pos) \in Nat
  BY <1>2, ByteAlike
<1>4. U8(w, pos + 1) = U8(b, pos + 1) /\ U8(b, pos + 1) \in Nat
  <2>1. pos + 1 \in Nat
    OBVIOUS
  <2> QED
    BY <1>2, <2>1, ByteAlike
<1>5. HasWindow(w, pos)
  BY <1>0, <1>1, <1>2, <1>4 DEF HasWindow, Has
<1> DEFINE len == U8(b, pos + 1)
           base == U8(b, pos)
<1>6. ASSUME NEW i \in 0..(8 * len - 1)
      PROVE  i \in Nat /\ U8(w, pos + 2 + (i \div 8)) = U8(b, pos + 2 + (i \div 8))
  <2> DEFINE j == i \div 8
  <2>1. i \in Nat /\ j \in Nat /\ j < len
    BY <1>4
  <2> HIDE DEF j
  <2>2. pos + 2 + j \in Nat /\ Has(b, pos + 2 + j, 1)
    BY <1>0, <1>1, <1>4, <2>1 DEF Has
  <2>3. U8(w, pos + 2 + j) = U8(b, pos + 2 + j)
    BY <2>2, ByteAlike
  <2> QED
    BY <2>1, <2>3 DEF j
<1>7. Window(b, pos) = Window(w, pos)
  <2>1. U8(w, pos) = base /\ U8(w, pos + 1) = len
    BY <1>3, <1>4
  <2> HIDE DEF base, len
  <2>2. {j \in 0..(8 * len - 1) : (U8(b, pos + 2 + (j \div 8)) \div 2 ^ (7 - (j % 8))) % 2 = 1}
          = {j \in 0..(8 * len - 1) : (U8(w, pos + 2 + (j \div 8)) \div 2 ^ (7 - (j % 8))) % 2 = 1}
    BY <1>6
  <2>3. Window(b, pos) =
          {base * 256 + i : i \in {j \in 0..(8 * len - 1) :
             (U8(b, pos + 2 + (j \div 8)) \div 2 ^ (7 - (j % 8))) % 2 = 1}}
    BY DEF Window, base, len
  <2>4. Window(w, pos) =
          {base * 256 + i : i \in {j \in 0..(8 * len - 1) :
             (U8(w, pos + 2 + (j \div 8)) \div 2 ^ (7 - (j % 8))) % 2 = 1}}
    BY <2>1 DEF Window
  <2> QED
    BY <2>2, <2>3, <2>4
<1>8. Window(b, pos) \in SUBSET Nat
  <2>1. \A i \in 0..(8 * len - 1) : base * 256 + i \in Nat
    BY <1>3, <1>6
  <2> QED
    BY <2>1 DEF Window
<1> QED
  BY <1>1, <1>3, <1>4, <1>5, <1>7, <1>8 DEF HasWindow, NextWindow

(* A step goes forward, and what it returns is of the set.                 *)
LEMMA WindowIs ==
  ASSUME NEW b, IsBytes(b), NEW pos \in Nat
  PROVE  /\ NextWindow(b, pos) \in Nat /\ NextWindow(b, pos) > pos
         /\ \A r \in TypesReads : WindowThen(b, pos, r) \in TypesReads
<1>0. IsCut(b, b)
  BY CutOfItself
<1>1. CASE HasWindow(b, pos)
  <2>1. /\ NextWindow(b, pos) \in Nat /\ NextWindow(b, pos) > pos
        /\ Window(b, pos) \in SUBSET Nat
    BY <1>0, <1>1, WindowAlike
  <2> SUFFICES ASSUME NEW r \in TypesReads PROVE WindowThen(b, pos, r) \in TypesReads
    BY <2>1
  <2>2. r.value \in Seq(SUBSET Nat)
    BY DEF TypesReads
  <2>3. <<Window(b, pos)>> \o r.value \in Seq(SUBSET Nat)
    BY <2>1, <2>2
  <2> QED
    BY <1>1, <2>3 DEF WindowThen, TypesReads
<1>2. CASE ~ HasWindow(b, pos)
  <2>1. Throws \in TypesReads
    BY DEF Throws, TypesReads
  <2> QED
    BY <1>2, <2>1 DEF NextWindow, WindowThen
<1> QED
  BY <1>1, <1>2

(* The recursion of decodeTypeBitmap has a solution.                       *)
LEMMA TypesScanExists ==
  ASSUME NEW b, IsBytes(b), NEW end \in Nat
  PROVE  \E h : IsTypesScan(b, end, h) /\ \A at : Types(b, at, end) = h[at]
<1> DEFINE done == {pos \in Nat : pos + 2 > end}
           stop == [pos \in Nat |-> Read(<<>>, pos)]
           next == [pos \in Nat |-> NextWindow(b, pos)]
           join == [p \in Nat \X TypesReads |-> WindowThen(b, p[1], p[2])]
           Body(Blocks) ==
             [pos \in Nat |->
                IF pos + 2 > end THEN Read(<<>>, pos)
                ELSE IF ~ Has(b, pos, 2) \/ ~ Has(b, pos + 2, U8(b, pos + 1)) THEN Throws
                ELSE [Blocks[pos + 2 + U8(b, pos + 1)] EXCEPT !.value = <<Window(b, pos)>> \o @]]
           F == CHOOSE Blocks : Blocks = Body(Blocks)
<1>0. \A pos \in Nat : Read(<<>>, pos) \in TypesReads
  BY DEF Read, TypesReads
<1>1. IsScan(TypesReads, end, done, stop, next, join)
  <2>1. stop \in [Nat -> TypesReads]
    BY <1>0
  <2>2. \A pos \in Nat : next[pos] \in Nat /\ next[pos] > pos
    BY WindowIs
  <2>3. next \in [Nat -> Nat]
    BY <2>2
  <2>4. \A p \in Nat \X TypesReads : WindowThen(b, p[1], p[2]) \in TypesReads
    BY WindowIs
  <2>5. join \in [Nat \X TypesReads -> TypesReads]
    BY <2>4
  <2>6. \A pos \in Nat : pos >= end => pos \in done
    OBVIOUS
  <2> HIDE DEF done, stop, next, join
  <2> QED
    BY <2>1, <2>2, <2>3, <2>5, <2>6 DEF IsScan
<1>2. PICK h \in [Nat -> TypesReads] : \A pos \in Nat :
        h[pos] = IF pos \in done THEN stop[pos] ELSE join[<<pos, h[next[pos]]>>]
  <2> HIDE DEF done, stop, next, join
  <2> QED
    BY <1>1, ScanExists
<1>3. ASSUME NEW pos \in Nat, NEW f \in [Nat -> TypesReads]
      PROVE  Body(f)[pos] = IF pos + 2 > end THEN Read(<<>>, pos)
                            ELSE WindowThen(b, pos, f[NextWindow(b, pos)])
  BY DEF WindowThen, NextWindow, HasWindow
<1>4. ASSUME NEW pos \in Nat
      PROVE  h[pos] = IF pos + 2 > end THEN Read(<<>>, pos) ELSE WindowThen(b, pos, h[NextWindow(b, pos)])
  <2>1. NextWindow(b, pos) \in Nat
    BY WindowIs
  <2>2. h[NextWindow(b, pos)] \in TypesReads
    BY <2>1
  <2>3. <<pos, h[NextWindow(b, pos)]>> \in Nat \X TypesReads
    BY <2>2
  <2>4. join[<<pos, h[NextWindow(b, pos)]>>] = WindowThen(b, pos, h[NextWindow(b, pos)])
    BY <2>3
  <2>5. next[pos] = NextWindow(b, pos) /\ stop[pos] = Read(<<>>, pos) /\ (pos \in done <=> pos + 2 > end)
    OBVIOUS
  <2> HIDE DEF done, stop, next, join
  <2> QED
    BY <1>2, <2>4, <2>5
<1>5. h = Body(h)
  <2>1. h = [pos \in Nat |-> h[pos]]
    OBVIOUS
  <2>2. \A pos \in Nat : Body(h)[pos] = h[pos]
    <3> HIDE DEF Body
    <3> QED
      BY <1>3, <1>4
  <2>3. Body(h) = [pos \in Nat |-> Body(h)[pos]]
    OBVIOUS
  <2> HIDE DEF Body
  <2> QED
    BY <2>1, <2>2, <2>3
<1>6. F = Body(F)
  BY <1>5
<1>7. \A at : Types(b, at, end) = F[at]
  BY DEF Types
<1> HIDE DEF F
<1>8. ASSUME NEW pos \in Nat
      PROVE  F[pos] = IF pos + 2 > end THEN Read(<<>>, pos) ELSE WindowThen(b, pos, F[NextWindow(b, pos)])
  BY <1>6 DEF WindowThen, NextWindow, HasWindow
<1> HIDE DEF Body
<1> DEFINE Good == {pos \in Nat : F[pos] \in TypesReads}
<1>9. ASSUME NEW pos \in Nat, pos + 2 > end PROVE pos \in Good
  BY <1>0, <1>8, <1>9
<1>10. ASSUME NEW pos \in Nat, \A q \in Nat : q > pos => q \in Good PROVE pos \in Good
  <2>1. F[NextWindow(b, pos)] \in TypesReads
    BY <1>10, WindowIs
  <2>2. WindowThen(b, pos, F[NextWindow(b, pos)]) \in TypesReads
    BY <2>1, WindowIs
  <2>3. pos + 2 > end => pos \in Good
    BY <1>9
  <2> QED
    BY <1>8, <2>2, <2>3
<1>11. \A pos \in Nat : F[pos] \in TypesReads
  <2>1. \A pos \in Nat : pos >= end => pos + 2 > end
    OBVIOUS
  <2>2. \A pos \in Nat : pos \in Good
    <3> HIDE DEF Good
    <3> QED
      BY <1>9, <1>10, <2>1, Backward
  <2> QED
    BY <2>2
<1>12. F = [pos \in Nat |-> F[pos]]
  BY <1>6 DEF Body
<1>13. F \in [Nat -> TypesReads]
  BY <1>11, <1>12
<1> QED
  BY <1>7, <1>8, <1>13 DEF IsTypesScan

(* The bit maps.                                                           *)
LEMMA TypesAlike ==
  ASSUME NEW b, NEW w, IsCut(b, w), NEW end \in Nat, NEW at \in Nat
  PROVE  /\ Types(b, at, end) \in TypesReads
         /\ Exactly(Types(b, at, end), Types(w, at, end))
<1>0. IsBytes(b) /\ IsBytes(w)
  BY DEF IsCut
<1>1. PICK h : IsTypesScan(b, end, h) /\ \A i : Types(b, i, end) = h[i]
  BY <1>0, TypesScanExists
<1>2. PICK g : IsTypesScan(w, end, g) /\ \A i : Types(w, i, end) = g[i]
  BY <1>0, TypesScanExists
<1>3. /\ \A pos \in Nat : h[pos] \in TypesReads /\ g[pos] \in TypesReads
      /\ \A pos \in Nat : h[pos] = IF pos + 2 > end THEN Read(<<>>, pos)
                                   ELSE WindowThen(b, pos, h[NextWindow(b, pos)])
      /\ \A pos \in Nat : g[pos] = IF pos + 2 > end THEN Read(<<>>, pos)
                                   ELSE WindowThen(w, pos, g[NextWindow(w, pos)])
  BY <1>1, <1>2 DEF IsTypesScan
<1> DEFINE Good == {pos \in Nat : Exactly(h[pos], g[pos])}
<1>4. ASSUME NEW pos \in Nat, pos + 2 > end PROVE pos \in Good
  BY <1>3, <1>4 DEF Exactly
<1>5. ASSUME NEW pos \in Nat, \A q \in Nat : q > pos => q \in Good PROVE pos \in Good
  <2>1. CASE pos + 2 > end
    BY <1>4, <2>1
  <2>2. CASE ~ (pos + 2 > end)
    <3> SUFFICES ASSUME h[pos].ok PROVE g[pos] = h[pos]
      BY DEF Exactly
    <3> DEFINE q == NextWindow(b, pos)
               r == h[q]
               s == g[q]
    <3>1. h[pos] = WindowThen(b, pos, r)
      BY <1>3, <2>2
    <3>2. HasWindow(b, pos)
      BY <3>1 DEF WindowThen, Throws
    <3>3. /\ HasWindow(w, pos) /\ Window(b, pos) = Window(w, pos)
          /\ q \in Nat /\ q > pos /\ NextWindow(w, pos) = q
      BY <3>2, WindowAlike
    <3>4. h[pos] = [r EXCEPT !.value = <<Window(b, pos)>> \o @]
      BY <3>1, <3>2 DEF WindowThen
    <3>5. g[pos] = [s EXCEPT !.value = <<Window(b, pos)>> \o @]
      BY <1>3, <2>2, <3>3 DEF WindowThen
    <3>6. r \in TypesReads
      BY <1>3, <3>3
    <3>7. Exactly(r, s)
      BY <1>5, <3>3
    <3> HIDE DEF q, r, s
    <3>8. r.ok
      BY <3>4, <3>6 DEF TypesReads
    <3> QED
      BY <3>4, <3>5, <3>7, <3>8 DEF Exactly
  <2> QED
    BY <2>1, <2>2
<1>6. \A pos \in Nat : pos \in Good
  <2>1. \A pos \in Nat : pos >= end => pos + 2 > end
    OBVIOUS
  <2> HIDE DEF Good
  <2> QED
    BY <1>4, <1>5, <2>1, Backward
<1>7. at \in Good
  BY <1>6
<1> QED
  BY <1>1, <1>2, <1>3, <1>7

-----------------------------------------------------------------------------
(* Key tags and gateways *)

(* dnskeyKeyTag: the sum of the bytes, the odd ones weighted.              *)
Weighted(b, from, i) == U8(b, from + i - 1) * (IF i % 2 = 1 THEN 256 ELSE 1)
IsSumUp(b, from, N, h) ==
  /\ h \in [0..N -> Nat] /\ h[0] = 0
  /\ \A i \in 1..N : h[i] = h[i - 1] + Weighted(b, from, i)
TagOf(ac) == (ac + ((ac \div 65536) % 65536)) % 65536

(* Its bytes are all there.                                                *)
LEMMA WeightedAlike ==
  ASSUME NEW b, NEW w, IsCut(b, w), NEW from \in Nat, NEW end \in Nat, end <= Len(b),
         NEW i \in 1..(end - from)
  PROVE  Weighted(b, from, i) \in Nat /\ Weighted(w, from, i) = Weighted(b, from, i)
<1>0. Len(b) \in Nat
  BY BytesAre DEF IsCut
<1> DEFINE j == from + i - 1
<1>1. j \in Nat /\ j + 1 <= Len(b)
  BY <1>0
<1>2. Has(b, j, 1)
  BY <1>1 DEF Has
<1> HIDE DEF j
<1>3. U8(w, j) = U8(b, j) /\ U8(b, j) \in Nat
  BY <1>1, <1>2, ByteAlike
<1> QED
  BY <1>3 DEF Weighted, j

(* The recursion of dnskeyKeyTag has a solution.                           *)
LEMMA KeyTagIs ==
  ASSUME NEW b, IsBytes(b), NEW from \in Nat, NEW end \in Nat, from <= end, end <= Len(b)
  PROVE  \E h : IsSumUp(b, from, end - from, h) /\ KeyTag(b, from, end) = Read(TagOf(h[end - from]), end)
<1> DEFINE N == end - from
           step == [p \in (1..N) \X Nat |-> p[2] + Weighted(b, from, p[1])]
           Body(Ac) ==
             [i \in 0..N |->
                IF i = 0 THEN 0
                ELSE Ac[i - 1] + U8(b, from + i - 1) * (IF i % 2 = 1 THEN 256 ELSE 1)]
           F == CHOOSE Ac : Ac = Body(Ac)
<1>0. N \in Nat /\ Len(b) \in Nat /\ IsCut(b, b)
  BY BytesAre, CutOfItself
<1>1. \A i \in 1..N : Weighted(b, from, i) \in Nat
  BY <1>0, WeightedAlike
<1>2. Recursive(Nat, 0, N, step)
  <2>1. \A p \in (1..N) \X Nat : p[2] + Weighted(b, from, p[1]) \in Nat
    BY <1>1
  <2>2. step \in [(1..N) \X Nat -> Nat]
    BY <2>1
  <2> HIDE DEF N, step
  <2> QED
    BY <1>0, <2>2 DEF Recursive
<1>3. PICK h \in [0..N -> Nat] : h[0] = 0 /\ \A i \in 1..N : h[i] = step[<<i, h[i - 1]>>]
  <2> HIDE DEF N, step
  <2> QED
    BY <1>2, RecursionExists
<1> HIDE DEF N
<1>4. ASSUME NEW i \in 1..N PROVE h[i] = h[i - 1] + Weighted(b, from, i)
  <2>1. i - 1 \in 0..N
    BY <1>0
  <2>2. <<i, h[i - 1]>> \in (1..N) \X Nat
    BY <1>3, <2>1
  <2>3. step[<<i, h[i - 1]>>] = h[i - 1] + Weighted(b, from, i)
    BY <2>2
  <2> QED
    BY <1>3, <2>3
<1>5. h = Body(h)
  <2>1. ASSUME NEW i \in 0..N PROVE Body(h)[i] = h[i]
    <3>1. CASE i = 0
      BY <1>3, <3>1
    <3>2. CASE i # 0
      <4>1. i \in 1..N
        BY <1>0, <3>2
      <4> QED
        BY <1>4, <3>2, <4>1 DEF Weighted
    <3> QED
      BY <3>1, <3>2
  <2>2. h = [i \in 0..N |-> h[i]] /\ Body(h) = [i \in 0..N |-> Body(h)[i]]
    BY <1>3
  <2> HIDE DEF Body
  <2> QED
    BY <2>1, <2>2
<1>6. F = Body(F)
  BY <1>5
<1>7. KeyTag(b, from, end) = Read(TagOf(F[N]), end)
  <2>1. ~ (end > Len(b))
    BY <1>0
  <2> QED
    BY <2>1 DEF KeyTag, TagOf, N
<1> HIDE DEF F
<1>8. F[0] = 0 /\ \A i \in 1..N : F[i] = F[i - 1] + Weighted(b, from, i)
  <2>1. 0 \in 0..N /\ \A i \in 1..N : i \in 0..N /\ i # 0
    BY <1>0
  <2>2. ASSUME NEW i \in 1..N PROVE F[i] = F[i - 1] + Weighted(b, from, i)
    BY <1>6, <2>1 DEF Weighted
  <2> QED
    BY <1>6, <2>1, <2>2
<1>9. F = [i \in 0..N |-> F[i]]
  BY <1>6
<1> HIDE DEF Body
<1> DEFINE Good == {i \in Nat : F[i] \in Nat}
<1>10. 0 \in Good
  BY <1>8
<1>11. ASSUME NEW i \in 1..N, i - 1 \in Good PROVE i \in Good
  BY <1>0, <1>1, <1>8, <1>11, SMTT(30)
<1>12. \A i \in 0..N : F[i] \in Nat
  <2>1. \A i \in 0..N : i \in Good
    <3> HIDE DEF Good
    <3> QED
      BY <1>0, <1>10, <1>11, Upward
  <2> QED
    BY <2>1
<1>13. F \in [0..N -> Nat]
  BY <1>9, <1>12
<1>14. IsSumUp(b, from, N, F)
  BY <1>8, <1>13 DEF IsSumUp
<1> QED
  BY <1>7, <1>14 DEF N

(* The key tag.                                                            *)
LEMMA KeyTagAlike ==
  ASSUME NEW b, NEW w, IsCut(b, w), NEW from \in Nat, NEW end \in Nat, from <= end
  PROVE  /\ Exactly(KeyTag(b, from, end), KeyTag(w, from, end))
         /\ KeyTag(b, from, end).ok =>
              KeyTag(b, from, end).value \in Nat /\ KeyTag(b, from, end).next \in Nat
<1> DEFINE N == end - from
<1>0. /\ IsBytes(b) /\ IsBytes(w) /\ Len(b) \in Nat /\ Len(w) \in Nat /\ Len(b) <= Len(w)
      /\ N \in Nat
  BY BytesAre DEF IsCut
<1>1. CASE end > Len(b)
  BY <1>1 DEF KeyTag, Throws, Exactly
<1>2. CASE ~ (end > Len(b))
  <2>1. end <= Len(b) /\ end <= Len(w)
    BY <1>0, <1>2
  <2>2. PICK h : IsSumUp(b, from, N, h) /\ KeyTag(b, from, end) = Read(TagOf(h[N]), end)
    BY <1>0, <2>1, KeyTagIs
  <2>3. PICK g : IsSumUp(w, from, N, g) /\ KeyTag(w, from, end) = Read(TagOf(g[N]), end)
    BY <1>0, <2>1, KeyTagIs
  <2>4. \A i \in 1..N : Weighted(w, from, i) = Weighted(b, from, i)
    BY <2>1, WeightedAlike
  <2> HIDE DEF N
  <2>5. /\ h[0] = 0 /\ g[0] = 0 /\ \A i \in 0..N : h[i] \in Nat
        /\ \A i \in 1..N : h[i] = h[i - 1] + Weighted(b, from, i)
        /\ \A i \in 1..N : g[i] = g[i - 1] + Weighted(w, from, i)
    BY <2>2, <2>3 DEF IsSumUp
  <2> DEFINE Good == {i \in Nat : g[i] = h[i]}
  <2>6. 0 \in Good
    BY <2>5
  <2>7. ASSUME NEW i \in 1..N, i - 1 \in Good PROVE i \in Good
    BY <1>0, <2>4, <2>5, <2>7
  <2>8. N \in Good
    <3> HIDE DEF Good
    <3>1. \A i \in 0..N : i \in Good
      BY <1>0, <2>6, <2>7, Upward
    <3> QED
      BY <1>0, <3>1
  <2>9. g[N] = h[N] /\ h[N] \in Nat
    BY <1>0, <2>5, <2>8
  <2>10. \A x \in Nat : TagOf(x) \in Nat
    <3> SUFFICES ASSUME NEW x \in Nat PROVE TagOf(x) \in Nat
      OBVIOUS
    <3>1. x \div 65536 \in Nat
      OBVIOUS
    <3>2. (x \div 65536) % 65536 \in Nat
      BY <3>1
    <3>3. x + ((x \div 65536) % 65536) \in Nat
      BY <3>2
    <3> QED
      BY <3>3 DEF TagOf
  <2> QED
    BY <2>2, <2>3, <2>9, <2>10 DEF Exactly, Read
<1> QED
  BY <1>1, <1>2

(* The gateway of an IPSECKEY.                                             *)
LEMMA GatewayAlike ==
  ASSUME NEW b, NEW w, IsCut(b, w), NEW at \in Nat
  PROVE  /\ Exactly(Gateway(b, at), Gateway(w, at))
         /\ Gateway(b, at).ok =>
              /\ Gateway(b, at).value \in Seq(Octets) \cup NameTexts
              /\ Gateway(b, at).next \in Nat
<1>1. CASE ~ Has(b, at, 2)
  BY <1>1 DEF Gateway, Throws, Exactly
<1>2. CASE Has(b, at, 2)
  <2>1. Has(w, at, 2) /\ Has(b, at, 1)
    <3>1. Len(b) \in Nat /\ 2 \in Nat
      BY BytesAre DEF IsCut
    <3> QED
      BY <1>2, <3>1, BytesAlike DEF Has
  <2>2. U8(w, at) = U8(b, at) /\ at + 2 \in Nat
    BY <2>1, ByteAlike
  <2>3. CASE U8(b, at) = 1
    <3>1. Gateway(b, at) = Fixed(b, at + 2, 4) /\ Gateway(w, at) = Fixed(w, at + 2, 4)
      BY <1>2, <2>1, <2>2, <2>3 DEF Gateway
    <3> QED
      BY <2>2, <3>1, FixedAlike
  <2>4. CASE U8(b, at) = 2
    <3>1. Gateway(b, at) = Fixed(b, at + 2, 16) /\ Gateway(w, at) = Fixed(w, at + 2, 16)
      BY <1>2, <2>1, <2>2, <2>4 DEF Gateway
    <3> QED
      BY <2>2, <3>1, FixedAlike
  <2>5. CASE U8(b, at) = 3
    <3>1. Gateway(b, at) = ReadName(b, at + 2) /\ Gateway(w, at) = ReadName(w, at + 2)
      BY <1>2, <2>1, <2>2, <2>5 DEF Gateway
    <3> QED
      BY <2>2, <3>1, NameAlike DEF Exactly, NameReads
  <2>6. CASE U8(b, at) \notin {1, 2, 3}
    <3>1. Gateway(b, at) = Read(<<>>, at + 2) /\ Gateway(w, at) = Read(<<>>, at + 2)
      BY <1>2, <2>1, <2>2, <2>6 DEF Gateway
    <3> QED
      BY <2>2, <3>1 DEF Exactly, Read
  <2> QED
    BY <2>3, <2>4, <2>5, <2>6
<1> QED
  BY <1>1, <1>2

-----------------------------------------------------------------------------
(* Fields *)

(* The kinds of fields, and what they hold.                                *)
FieldKinds == {"u8", "skip", "u16", "u32", "ip4", "ip6", "name", "text", "counted", "rest",
               "tag", "value", "size", "keyTag", "types", "gateway"}
Opaque(f) == f \in {"text", "counted", "rest", "tag", "value"}
FieldValues == Nat \cup Seq(Octets) \cup NameTexts \cup Seq(SUBSET Nat)
IsRead(r) == r = [ok |-> r.ok, value |-> r.value, next |-> r.next]

(* Every record is laid out in such fields.                                *)
LEMMA LayoutsAre == \A type : Layout(type) \in Seq(FieldKinds)
<1>1. ASSUME NEW t \in DOMAIN TypeOf PROVE Layouts[t] \in Seq(FieldKinds)
  <2>1. Layouts["A"] \in Seq(FieldKinds)
    BY DEF Layouts, FieldKinds
  <2>2. Layouts["AAAA"] \in Seq(FieldKinds)
    BY DEF Layouts, FieldKinds
  <2>3. Layouts["TXT"] \in Seq(FieldKinds)
    BY DEF Layouts, FieldKinds
  <2>4. Layouts["NS"] \in Seq(FieldKinds)
    BY DEF Layouts, FieldKinds
  <2>5. Layouts["CNAME"] \in Seq(FieldKinds)
    BY DEF Layouts, FieldKinds
  <2>6. Layouts["PTR"] \in Seq(FieldKinds)
    BY DEF Layouts, FieldKinds
  <2>7. Layouts["MX"] \in Seq(FieldKinds)
    BY DEF Layouts, FieldKinds
  <2>8. Layouts["SRV"] \in Seq(FieldKinds)
    BY DEF Layouts, FieldKinds
  <2>9. Layouts["SOA"] \in Seq(FieldKinds)
    BY DEF Layouts, FieldKinds
  <2>10. Layouts["CAA"] \in Seq(FieldKinds)
    BY DEF Layouts, FieldKinds
  <2>11. Layouts["DS"] \in Seq(FieldKinds)
    BY DEF Layouts, FieldKinds
  <2>12. Layouts["DNSKEY"] \in Seq(FieldKinds)
    BY DEF Layouts, FieldKinds
  <2>13. Layouts["LOC"] \in Seq(FieldKinds)
    BY DEF Layouts, FieldKinds
  <2>14. Layouts["CERT"] \in Seq(FieldKinds)
    BY DEF Layouts, FieldKinds
  <2>15. Layouts["IPSECKEY"] \in Seq(FieldKinds)
    BY DEF Layouts, FieldKinds
  <2>16. Layouts["RRSIG"] \in Seq(FieldKinds)
    BY DEF Layouts, FieldKinds
  <2>17. Layouts["NSEC"] \in Seq(FieldKinds)
    BY DEF Layouts, FieldKinds
  <2>18. Layouts["NSEC3PARAM"] \in Seq(FieldKinds)
    BY DEF Layouts, FieldKinds
  <2>19. t \in {"A", "AAAA", "TXT", "NS", "CNAME", "PTR", "MX", "SRV", "SOA", "CAA",
               "DS", "DNSKEY", "LOC", "CERT", "IPSECKEY", "RRSIG", "NSEC", "NSEC3PARAM"}
    BY DEF TypeOf
  <2> QED
    BY <2>1, <2>2, <2>3, <2>4, <2>5, <2>6, <2>7, <2>8, <2>9, <2>10, <2>11, <2>12, <2>13, <2>14, <2>15, <2>16, <2>17, <2>18, <2>19
<1>2. <<"rest">> \in Seq(FieldKinds)
  BY DEF FieldKinds
<1> QED
  BY <1>1, <1>2 DEF Layout

(* The fields of a fixed width.                                            *)
LEMMA WidthIs ==
  /\ DOMAIN Width = {"u8", "skip", "u16", "u32", "ip4", "ip6"}
  /\ \A f \in DOMAIN Width : Width[f] \in Nat
BY DEF Width

(* Which field reads what.                                                 *)
LEMMA FieldCases ==
  ASSUME NEW b, NEW at, NEW begin, NEW end
  PROVE  /\ \A f \in DOMAIN Width : Field(f, b, at, begin, end) = Fixed(b, at, Width[f])
         /\ Field("name", b, at, begin, end) = ReadName(b, at)
         /\ Field("text", b, at, begin, end) = Text(b, at, end)
         /\ Field("counted", b, at, begin, end) = Counted8(b, at)
         /\ Field("rest", b, at, begin, end) = Read(Slice(b, at, end), end)
         /\ Field("tag", b, at, begin, end) = AsText(Counted8(b, at))
         /\ Field("value", b, at, begin, end) = AsText(Read(Slice(b, at, end), end))
         /\ Field("size", b, at, begin, end) = LocSize(b, at)
         /\ Field("keyTag", b, at, begin, end) = KeyTag(b, begin, end)
         /\ Field("types", b, at, begin, end) = Types(b, at, end)
         /\ Field("gateway", b, at, begin, end) = Gateway(b, at)
BY WidthIs DEF Field

(* What is read as a text.                                                 *)
LEMMA AsTextIs ==
  ASSUME NEW x, NEW y
  PROVE  /\ AsText(Read(x, y)) = Read(Decoded(x), y)
         /\ AsText(Throws).ok = FALSE /\ IsRead(AsText(Throws))
<1>1. \A a, v, w, z : [[ok |-> a, value |-> v, next |-> z] EXCEPT !.value = w]
                       = [ok |-> a, value |-> w, next |-> z]
  OBVIOUS
<1>5. ASSUME NEW a, NEW v, NEW z
      PROVE  AsText([ok |-> a, value |-> v, next |-> z]) = [ok |-> a, value |-> Decoded(v), next |-> z]
  <2> DEFINE r == [ok |-> a, value |-> v, next |-> z]
  <2>1. r.value = v
    OBVIOUS
  <2>2. [r EXCEPT !.value = Decoded(v)] = [ok |-> a, value |-> Decoded(v), next |-> z]
    BY <1>1
  <2> HIDE DEF r
  <2>3. AsText(r) = [r EXCEPT !.value = Decoded(r.value)]
    BY DEF AsText
  <2>4. AsText(r) = [ok |-> a, value |-> Decoded(v), next |-> z]
    BY <2>1, <2>2, <2>3
  <2> QED
    BY <2>4 DEF r
<1>2. AsText(Read(x, y)) = Read(Decoded(x), y)
  BY <1>5 DEF Read
<1>3. AsText(Throws) = [ok |-> FALSE, value |-> Decoded(<<>>), next |-> 0]
  BY <1>5 DEF Throws
<1> QED
  BY <1>2, <1>3 DEF IsRead

(* The tag of a CAA record.                                                *)
LEMMA TagTextAlike ==
  ASSUME NEW b, NEW w, IsCut(b, w), NEW at \in Nat
  PROVE  LET r == AsText(Counted8(b, at))
             s == AsText(Counted8(w, at))
         IN  /\ ButTorn(r, s)
             /\ IsRead(r) /\ r.ok \in BOOLEAN
             /\ r.ok => r.next \in Nat /\ r.value \in Seq(Octets)
<1>1. CASE Counted8(b, at).ok
  <2> DEFINE x == Counted8(b, at).value
             y == Counted8(w, at).value
             q == Counted8(b, at).next
  <2>1. /\ Counted8(w, at).ok /\ Counted8(w, at).next = q
        /\ q \in Nat /\ x \in Seq(Octets) /\ y \in Seq(Octets) /\ IsPrefix(x, y)
    BY <1>1, Counted8Alike
  <2>2. Counted8(b, at) = Read(x, q) /\ Counted8(w, at) = Read(y, q)
    BY <1>1, <2>1 DEF Counted8, Read, Throws
  <2> HIDE DEF x, y, q
  <2>3. Torn(Decoded(x), Decoded(y)) /\ Decoded(x) \in Seq(Octets)
    BY <2>1, BeginningIsCut, DecodedAlike, DecodedIs DEF IsBytes
  <2>4. AsText(Counted8(b, at)) = Read(Decoded(x), q) /\ AsText(Counted8(w, at)) = Read(Decoded(y), q)
    BY <2>2, AsTextIs
  <2> QED
    BY <2>1, <2>3, <2>4 DEF ButTorn, Read, IsRead
<1>2. CASE ~ Counted8(b, at).ok
  <2>1. Counted8(b, at) = Throws
    BY <1>2 DEF Counted8, Read
  <2> QED
    BY <2>1, AsTextIs DEF ButTorn
<1> QED
  BY <1>1, <1>2

(* Its value.                                                              *)
LEMMA ValueAlike ==
  ASSUME NEW b, NEW w, IsCut(b, w), NEW at \in Nat, NEW end \in Nat
  PROVE  LET r == AsText(Read(Slice(b, at, end), end))
             s == AsText(Read(Slice(w, at, end), end))
         IN  /\ ButTorn(r, s)
             /\ IsRead(r) /\ r.ok \in BOOLEAN /\ r.next \in Nat /\ r.value \in Seq(Octets)
<1> DEFINE x == Slice(b, at, end)
           y == Slice(w, at, end)
<1>1. x \in Seq(Octets) /\ y \in Seq(Octets) /\ IsPrefix(x, y)
  BY SliceAlike
<1> HIDE DEF x, y
<1>2. Torn(Decoded(x), Decoded(y)) /\ Decoded(x) \in Seq(Octets)
  BY <1>1, BeginningIsCut, DecodedAlike, DecodedIs DEF IsBytes
<1>3. AsText(Read(x, end)) = Read(Decoded(x), end) /\ AsText(Read(y, end)) = Read(Decoded(y), end)
  BY AsTextIs
<1>4. /\ AsText(Read(Slice(b, at, end), end)) = Read(Decoded(x), end)
      /\ AsText(Read(Slice(w, at, end), end)) = Read(Decoded(y), end)
  BY <1>3 DEF x, y
<1> DEFINE r == AsText(Read(Slice(b, at, end), end))
           t == AsText(Read(Slice(w, at, end), end))
<1>5. r = [ok |-> TRUE, value |-> Decoded(x), next |-> end]
        /\ t = [ok |-> TRUE, value |-> Decoded(y), next |-> end]
  BY <1>4 DEF Read
<1> HIDE DEF r, t
<1>6. ButTorn(r, t) /\ IsRead(r) /\ r.ok \in BOOLEAN /\ r.next \in Nat /\ r.value \in Seq(Octets)
  BY <1>2, <1>5 DEF ButTorn, IsRead
<1> QED
  BY <1>6 DEF r, t

(* The sizes of a LOC record.                                              *)
LEMMA SizeAlike ==
  ASSUME NEW b, NEW w, IsCut(b, w), NEW at \in Nat
  PROVE  /\ Exactly(LocSize(b, at), LocSize(w, at))
         /\ IsRead(LocSize(b, at)) /\ LocSize(b, at).ok \in BOOLEAN
         /\ LocSize(b, at).ok => LocSize(b, at).next \in Nat /\ LocSize(b, at).value \in Seq(Octets)
<1>1. CASE Has(b, at, 1)
  <2> DEFINE x == Centimetres(U8(b, at) \div 16, U8(b, at) % 16)
  <2>1. Has(w, at, 1) /\ U8(w, at) = U8(b, at) /\ U8(b, at) \in Octets
    <3>1. 1 \in Nat /\ 1 >= 1
      OBVIOUS
    <3> QED
      BY <1>1, <3>1, BytesAlike
  <2>2. LocSize(b, at) = Read(x, at + 1) /\ LocSize(w, at) = Read(x, at + 1)
    BY <1>1, <2>1 DEF LocSize
  <2>3. U8(b, at) \div 16 \in 0..15 /\ U8(b, at) % 16 \in 0..15
    BY <2>1 DEF Octets
  <2>4. \A m, e \in 0..15 : Centimetres(m, e) \in Seq(Octets)
    <3> SUFFICES ASSUME NEW m \in 0..15, NEW e \in 0..15 PROVE Centimetres(m, e) \in Seq(Octets)
      OBVIOUS
    <3>1. \A c, d \in Octets : <<c, d>> \in Seq(Octets)
      OBVIOUS
    <3>2. 0 \in Octets /\ 1 \in Octets /\ m \in Octets /\ e \in Octets /\ e + 1 \in Octets
      BY DEF Octets
    <3> QED
      BY <3>1, <3>2 DEF Centimetres
  <2>5. x \in Seq(Octets)
    BY <2>3, <2>4
  <2> HIDE DEF x
  <2> QED
    BY <2>2, <2>5 DEF Exactly, Read, IsRead
<1>2. CASE ~ Has(b, at, 1)
  BY <1>2 DEF LocSize, Throws, Exactly, IsRead
<1> QED
  BY <1>1, <1>2

(* What a field is read as.                                                *)
LEMMA FieldIs ==
  ASSUME NEW b, IsBytes(b), NEW f \in FieldKinds,
         NEW at \in Nat, NEW begin \in Nat, NEW end \in Nat, begin <= end
  PROVE  /\ IsRead(Field(f, b, at, begin, end))
         /\ Field(f, b, at, begin, end).ok \in BOOLEAN
         /\ Field(f, b, at, begin, end).ok =>
              /\ Field(f, b, at, begin, end).next \in Nat
              /\ Field(f, b, at, begin, end).value \in FieldValues
<1> DEFINE r == Field(f, b, at, begin, end)
           Fine(x) == IsRead(x) /\ x.ok \in BOOLEAN /\ (x.ok => x.next \in Nat /\ x.value \in FieldValues)
<1>0. IsCut(b, b)
  BY CutOfItself
<1>1. \A x, i : IsRead(Read(x, i)) /\ Read(x, i).ok \in BOOLEAN /\ Read(x, i).value = x /\ Read(x, i).next = i
  BY DEF IsRead, Read
<1>2. IsRead(Throws) /\ ~ Throws.ok /\ Throws.ok \in BOOLEAN
  BY DEF IsRead, Throws
<1>3. ASSUME NEW k \in Nat, NEW i \in Nat PROVE Fine(Fixed(b, i, k))
  <2>1. Fixed(b, i, k).ok => Fixed(b, i, k).next \in Nat /\ Fixed(b, i, k).value \in FieldValues
    BY <1>0, FixedAlike DEF FieldValues
  <2>2. IsRead(Fixed(b, i, k)) /\ Fixed(b, i, k).ok \in BOOLEAN
    BY <1>1, <1>2 DEF Fixed
  <2> QED
    BY <2>1, <2>2
<1>4. ASSUME NEW i \in Nat PROVE Fine(ReadName(b, i))
  BY <1>0, NameAlike DEF NameReads, FieldValues, IsRead
<1>5. CASE f \in DOMAIN Width
  BY <1>3, <1>5, WidthIs, FieldCases
<1>6. CASE f = "name"
  BY <1>4, <1>6, FieldCases
<1>7. CASE f = "text"
  <2>1. Text(b, at, end) \in TextReads
    BY <1>0, TextAlike
  <2>2. Fine(Text(b, at, end))
    BY <2>1 DEF TextReads, FieldValues, IsRead
  <2> QED
    BY <1>7, <2>2, FieldCases
<1>8. CASE f = "counted"
  <2>1. Counted8(b, at).ok => Counted8(b, at).next \in Nat /\ Counted8(b, at).value \in FieldValues
    BY <1>0, Counted8Alike DEF FieldValues
  <2>2. IsRead(Counted8(b, at)) /\ Counted8(b, at).ok \in BOOLEAN
    BY <1>1, <1>2 DEF Counted8
  <2> QED
    BY <1>8, <2>1, <2>2, FieldCases
<1>9. CASE f = "rest"
  <2>1. Slice(b, at, end) \in FieldValues
    BY <1>0, SliceAlike DEF FieldValues
  <2>2. Fine(Read(Slice(b, at, end), end))
    BY <1>1, <2>1
  <2> QED
    BY <1>9, <2>2, FieldCases
<1>10. CASE f = "keyTag"
  <2>1. KeyTag(b, begin, end).ok => KeyTag(b, begin, end).next \in Nat /\ KeyTag(b, begin, end).value \in FieldValues
    BY <1>0, KeyTagAlike DEF FieldValues
  <2>2. IsRead(KeyTag(b, begin, end)) /\ KeyTag(b, begin, end).ok \in BOOLEAN
    BY <1>1, <1>2 DEF KeyTag
  <2> QED
    BY <1>10, <2>1, <2>2, FieldCases
<1>11. CASE f = "types"
  <2>1. Types(b, at, end) \in TypesReads
    BY <1>0, TypesAlike
  <2>2. Fine(Types(b, at, end))
    BY <2>1 DEF TypesReads, FieldValues, IsRead
  <2> QED
    BY <1>11, <2>2, FieldCases
<1>12. CASE f = "gateway"
  <2>1. at + 2 \in Nat /\ 4 \in Nat /\ 16 \in Nat
    OBVIOUS
  <2>2. Fine(Fixed(b, at + 2, 4)) /\ Fine(Fixed(b, at + 2, 16)) /\ Fine(ReadName(b, at + 2))
    BY <1>3, <1>4, <2>1
  <2>3. Fine(Read(<<>>, at + 2))
    <3>1. <<>> \in FieldValues
      BY DEF FieldValues
    <3> QED
      BY <1>1, <2>1, <3>1
  <2>4. Fine(Throws)
    BY <1>2
  <2> HIDE DEF Fine
  <2>5. Fine(Gateway(b, at))
    BY <2>2, <2>3, <2>4 DEF Gateway
  <2>6. Fine(r)
    BY <1>12, <2>5, FieldCases
  <2> QED
    BY <2>6 DEF Fine
<1>13. CASE f = "tag"
  BY <1>0, <1>13, FieldCases, TagTextAlike DEF FieldValues
<1>14. CASE f = "value"
  BY <1>0, <1>14, FieldCases, ValueAlike DEF FieldValues
<1>15. CASE f = "size"
  BY <1>0, <1>15, FieldCases, SizeAlike DEF FieldValues
<1> QED
  BY <1>5, <1>6, <1>7, <1>8, <1>9, <1>10, <1>11, <1>12, <1>13, <1>14, <1>15, WidthIs DEF FieldKinds

(* What a field holds is the same of the cut and of the whole, or the tail *)
(* of a field that runs to the end is lost.                                *)
Kept(f, x, y) == x = y \/ Short(f, x, y)

(* Every field is read alike.                                              *)
LEMMA FieldAlike ==
  ASSUME NEW b, NEW w, IsCut(b, w), NEW f \in FieldKinds,
         NEW at \in Nat, NEW begin \in Nat, NEW end \in Nat, begin <= end,
         Field(f, b, at, begin, end).ok
  PROVE  /\ Field(f, w, at, begin, end).ok
         /\ Field(f, w, at, begin, end).next = Field(f, b, at, begin, end).next
         /\ Kept(f, Field(f, b, at, begin, end).value, Field(f, w, at, begin, end).value)
<1> DEFINE r == Field(f, b, at, begin, end)
           s == Field(f, w, at, begin, end)
<1>1. ASSUME Exactly(r, s) PROVE s.ok /\ s.next = r.next /\ Kept(f, r.value, s.value)
  BY <1>1 DEF Exactly, Kept
<1>2. ASSUME f \in {"counted", "rest"}, ButForATail(r, s)
      PROVE  s.ok /\ s.next = r.next /\ Kept(f, r.value, s.value)
  BY <1>2 DEF ButForATail, Kept, Short
<1>11. ASSUME f \in {"text", "tag", "value"}, ButTorn(r, s)
       PROVE  s.ok /\ s.next = r.next /\ Kept(f, r.value, s.value)
  BY <1>11 DEF ButTorn, Kept, Short
<1>3. CASE f \in DOMAIN Width
  <2>1. Exactly(r, s)
    BY <1>3, WidthIs, FieldCases, FixedAlike
  <2> QED
    BY <1>1, <2>1
<1>4. CASE f = "name"
  <2>1. Exactly(r, s)
    BY <1>4, FieldCases, NameAlike DEF Exactly
  <2> QED
    BY <1>1, <2>1
<1>5. CASE f = "text"
  <2>1. ButTorn(r, s)
    BY <1>5, FieldCases, TextAlike
  <2> QED
    BY <1>5, <1>11, <2>1
<1>6. CASE f = "counted"
  <2>1. ButForATail(r, s)
    BY <1>6, FieldCases, Counted8Alike DEF ButForATail
  <2> QED
    BY <1>2, <1>6, <2>1
<1>7. CASE f = "rest"
  <2>1. r = Read(Slice(b, at, end), end) /\ s = Read(Slice(w, at, end), end)
    BY <1>7, FieldCases
  <2>2. IsPrefix(Slice(b, at, end), Slice(w, at, end))
    BY SliceAlike
  <2>3. ButForATail(r, s)
    BY <2>1, <2>2 DEF ButForATail, Read
  <2> QED
    BY <1>2, <1>7, <2>3
<1>8. CASE f = "keyTag"
  <2>1. Exactly(r, s)
    BY <1>8, FieldCases, KeyTagAlike
  <2> QED
    BY <1>1, <2>1
<1>9. CASE f = "types"
  <2>1. Exactly(r, s)
    BY <1>9, FieldCases, TypesAlike
  <2> QED
    BY <1>1, <2>1
<1>10. CASE f = "gateway"
  <2>1. Exactly(r, s)
    BY <1>10, FieldCases, GatewayAlike
  <2> QED
    BY <1>1, <2>1
<1>12. CASE f = "tag"
  <2>1. ButTorn(r, s)
    BY <1>12, FieldCases, TagTextAlike
  <2> QED
    BY <1>11, <1>12, <2>1
<1>13. CASE f = "value"
  <2>1. ButTorn(r, s)
    BY <1>13, FieldCases, ValueAlike
  <2> QED
    BY <1>11, <1>13, <2>1
<1>14. CASE f = "size"
  <2>1. Exactly(r, s)
    BY <1>14, FieldCases, SizeAlike
  <2> QED
    BY <1>1, <2>1
<1> QED
  BY <1>3, <1>4, <1>5, <1>6, <1>7, <1>8, <1>9, <1>10, <1>12, <1>13, <1>14, WidthIs DEF FieldKinds

-----------------------------------------------------------------------------
(* Records *)

(* decodeRdata: the fields one after the other.                            *)
RdataReads == [ok : BOOLEAN, value : Seq(FieldValues), next : Nat]
FieldThen(b, f, begin, end, read) ==
  LET r == Field(f, b, read.next, begin, end)
  IN  IF read.ok /\ r.ok THEN [r EXCEPT !.value = Append(read.value, @)] ELSE Throws
IsRdataScan(b, type, begin, end, h) ==
  /\ h \in [0..Len(Layout(type)) -> RdataReads]
  /\ h[0] = Read(<<>>, begin)
  /\ \A k \in 1..Len(Layout(type)) : h[k] = FieldThen(b, Layout(type)[k], begin, end, h[k - 1])

(* A result with another value.                                            *)
LEMMA WithValue ==
  ASSUME NEW x, NEW y, NEW q
  PROVE  [[ok |-> TRUE, value |-> x, next |-> q] EXCEPT !.value = y]
           = [ok |-> TRUE, value |-> y, next |-> q]
<1>1. \A a, v : [[ok |-> a, value |-> x, next |-> q] EXCEPT !.value = v]
                 = [ok |-> a, value |-> v, next |-> q]
  OBVIOUS
<1> QED
  BY <1>1

(* One field more.                                                         *)
LEMMA FieldThenIs ==
  ASSUME NEW b, IsBytes(b), NEW f \in FieldKinds, NEW begin \in Nat, NEW end \in Nat, begin <= end,
         NEW read \in RdataReads
  PROVE  /\ FieldThen(b, f, begin, end, read) \in RdataReads
         /\ FieldThen(b, f, begin, end, read).ok =>
              /\ read.ok /\ Field(f, b, read.next, begin, end).ok
              /\ FieldThen(b, f, begin, end, read) =
                   Read(Append(read.value, Field(f, b, read.next, begin, end).value),
                        Field(f, b, read.next, begin, end).next)
<1> DEFINE r == Field(f, b, read.next, begin, end)
<1>1. read.next \in Nat /\ read.value \in Seq(FieldValues) /\ read.ok \in BOOLEAN
  BY DEF RdataReads
<1>2. IsRead(r) /\ r.ok \in BOOLEAN /\ (r.ok => r.next \in Nat /\ r.value \in FieldValues)
  BY <1>1, FieldIs
<1>3. FieldThen(b, f, begin, end, read) =
        IF read.ok /\ r.ok THEN [r EXCEPT !.value = Append(read.value, @)] ELSE Throws
  BY DEF FieldThen
<1> HIDE DEF r
<1>4. CASE read.ok /\ r.ok
  <2>1. r = [ok |-> TRUE, value |-> r.value, next |-> r.next]
    BY <1>2, <1>4 DEF IsRead
  <2> DEFINE v == r.value
             q == r.next
  <2>2. v \in FieldValues /\ q \in Nat
    BY <1>2, <1>4
  <2> HIDE DEF v, q
  <2>3. [r EXCEPT !.value = Append(read.value, @)] = Read(Append(read.value, v), q)
    <3>1. r = [ok |-> TRUE, value |-> v, next |-> q]
      BY <2>1 DEF v, q
    <3>2. r.value = v
      BY DEF v
    <3> DEFINE y == Append(read.value, v)
    <3>3. [r EXCEPT !.value = Append(read.value, @)] = [r EXCEPT !.value = y]
      BY <3>2
    <3> HIDE DEF y
    <3>4. [r EXCEPT !.value = y] = [ok |-> TRUE, value |-> y, next |-> q]
      BY <3>1, WithValue
    <3> QED
      BY <3>3, <3>4 DEF Read, y
  <2>4. Append(read.value, v) \in Seq(FieldValues)
    BY <1>1, <2>2
  <2>5. Read(Append(read.value, v), q) \in RdataReads
    BY <2>2, <2>4 DEF Read, RdataReads
  <2> QED
    BY <1>3, <1>4, <2>3, <2>5 DEF r, v, q
<1>5. CASE ~ (read.ok /\ r.ok)
  <2>1. Throws \in RdataReads /\ ~ Throws.ok
    BY DEF Throws, RdataReads
  <2> QED
    BY <1>3, <1>5, <2>1
<1> QED
  BY <1>4, <1>5

(* The recursion of decodeRdata has a solution.                            *)
LEMMA RdataIs ==
  ASSUME NEW b, IsBytes(b), NEW type, NEW begin \in Nat, NEW end \in Nat, begin <= end
  PROVE  \E h : /\ IsRdataScan(b, type, begin, end, h)
                /\ DecodeRdata(b, type, begin, end) = h[Len(Layout(type))]
<1> DEFINE fields == Layout(type)
           N == Len(fields)
           base == Read(<<>>, begin)
           step == [p \in (1..N) \X RdataReads |-> FieldThen(b, fields[p[1]], begin, end, p[2])]
           Body(Fields) ==
             [k \in 0..N |->
                IF k = 0 THEN base ELSE FieldThen(b, fields[k], begin, end, Fields[k - 1])]
           F == CHOOSE Fields : Fields = Body(Fields)
<1>0. fields \in Seq(FieldKinds) /\ N \in Nat
  BY LayoutsAre
<1>b. base \in RdataReads
  <2>1. <<>> \in Seq(FieldValues)
    OBVIOUS
  <2> QED
    BY <2>1 DEF Read, RdataReads
<1> HIDE DEF base
<1>1. \A i \in 1..N : fields[i] \in FieldKinds
  BY <1>0
<1>2. DecodeRdata(b, type, begin, end) = F[N]
  BY DEF DecodeRdata, FieldThen, base
<1> HIDE DEF fields, N
<1>3. ASSUME NEW i \in 1..N, NEW read \in RdataReads
      PROVE  FieldThen(b, fields[i], begin, end, read) \in RdataReads
  BY <1>1, FieldThenIs
<1>4. Recursive(RdataReads, base, N, step)
  <2>1. \A p \in (1..N) \X RdataReads : FieldThen(b, fields[p[1]], begin, end, p[2]) \in RdataReads
    BY <1>3
  <2>2. step \in [(1..N) \X RdataReads -> RdataReads]
    BY <2>1
  <2> HIDE DEF step
  <2> QED
    BY <1>0, <1>b, <2>2 DEF Recursive
<1>5. PICK h \in [0..N -> RdataReads] : h[0] = base /\ \A i \in 1..N : h[i] = step[<<i, h[i - 1]>>]
  <2> HIDE DEF step
  <2> QED
    BY <1>4, RecursionExists
<1>6. ASSUME NEW i \in 1..N PROVE h[i] = FieldThen(b, fields[i], begin, end, h[i - 1])
  <2>1. i - 1 \in 0..N
    BY <1>0
  <2>2. <<i, h[i - 1]>> \in (1..N) \X RdataReads
    BY <1>5, <2>1
  <2>3. step[<<i, h[i - 1]>>] = FieldThen(b, fields[i], begin, end, h[i - 1])
    BY <2>2
  <2> QED
    BY <1>5, <2>3
<1> HIDE DEF step
<1>7. h = Body(h)
  <2>1. ASSUME NEW i \in 0..N PROVE Body(h)[i] = h[i]
    <3>1. CASE i = 0
      BY <1>5, <3>1
    <3>2. CASE i # 0
      <4>1. i \in 1..N
        BY <1>0, <3>2
      <4> QED
        BY <1>6, <3>2, <4>1
    <3> QED
      BY <3>1, <3>2
  <2>2. h = [i \in 0..N |-> h[i]] /\ Body(h) = [i \in 0..N |-> Body(h)[i]]
    BY <1>5
  <2> HIDE DEF Body
  <2> QED
    BY <2>1, <2>2
<1>8. F = Body(F)
  BY <1>7
<1> HIDE DEF F
<1>9. F[0] = base /\ \A i \in 1..N : F[i] = FieldThen(b, fields[i], begin, end, F[i - 1])
  <2>1. 0 \in 0..N /\ \A i \in 1..N : i \in 0..N /\ i # 0
    BY <1>0
  <2>2. ASSUME NEW i \in 1..N PROVE F[i] = FieldThen(b, fields[i], begin, end, F[i - 1])
    BY <1>8, <2>1
  <2> QED
    BY <1>8, <2>1, <2>2
<1>10. F = [i \in 0..N |-> F[i]]
  BY <1>8
<1> HIDE DEF Body
<1> DEFINE Good == {i \in Nat : F[i] \in RdataReads}
<1>11. 0 \in Good
  BY <1>b, <1>9
<1>12. ASSUME NEW i \in 1..N, i - 1 \in Good PROVE i \in Good
  BY <1>0, <1>3, <1>9, <1>12
<1>13. \A i \in 0..N : F[i] \in RdataReads
  <2>1. \A i \in 0..N : i \in Good
    <3> HIDE DEF Good
    <3> QED
      BY <1>0, <1>11, <1>12, Upward
  <2> QED
    BY <2>1
<1>14. F \in [0..N -> RdataReads]
  BY <1>10, <1>13
<1>15. IsRdataScan(b, type, begin, end, F)
  BY <1>9, <1>14 DEF IsRdataScan, N, fields, base
<1> QED
  BY <1>2, <1>15 DEF N, fields

(* What is read of a record's data is the same of the cut and of the whole *)
(* but for the tails of fields that run to the end.                        *)
LEMMA RdataAlike ==
  ASSUME NEW b, NEW w, IsCut(b, w), NEW type, NEW begin \in Nat, NEW end \in Nat, begin <= end,
         DecodeRdata(b, type, begin, end).ok
  PROVE  LET x == DecodeRdata(b, type, begin, end).value
             y == DecodeRdata(w, type, begin, end).value
         IN  /\ DecodeRdata(w, type, begin, end).ok
             /\ x \in Seq(FieldValues) /\ y \in Seq(FieldValues)
             /\ Len(x) = Len(Layout(type)) /\ Len(y) = Len(Layout(type))
             /\ \A j \in 1..Len(y) : Kept(Layout(type)[j], x[j], y[j])
<1> DEFINE fields == Layout(type)
           N == Len(fields)
<1>0. /\ fields \in Seq(FieldKinds) /\ N \in Nat
      /\ IsBytes(b) /\ IsBytes(w)
  BY LayoutsAre DEF IsCut
<1>1. \A i \in 1..N : fields[i] \in FieldKinds
  BY <1>0
<1>2. PICK h : IsRdataScan(b, type, begin, end, h) /\ DecodeRdata(b, type, begin, end) = h[N]
  BY <1>0, RdataIs
<1>3. PICK g : IsRdataScan(w, type, begin, end, g) /\ DecodeRdata(w, type, begin, end) = g[N]
  BY <1>0, RdataIs
<1>4. /\ \A i \in 0..N : h[i] \in RdataReads /\ g[i] \in RdataReads
      /\ h[0] = Read(<<>>, begin) /\ g[0] = Read(<<>>, begin)
      /\ \A i \in 1..N : /\ h[i] = FieldThen(b, fields[i], begin, end, h[i - 1])
                         /\ g[i] = FieldThen(w, fields[i], begin, end, g[i - 1])
  BY <1>2, <1>3 DEF IsRdataScan
<1> HIDE DEF fields, N
<1> DEFINE Alike(r, s, i) ==
             /\ s.ok /\ s.next = r.next /\ Len(r.value) = i /\ Len(s.value) = i
             /\ \A j \in 1..i : Kept(fields[j], r.value[j], s.value[j])
           Good == {i \in Nat : h[i].ok => Alike(h[i], g[i], i)}
<1>5. 0 \in Good
  BY <1>4 DEF Read
<1>6. ASSUME NEW i \in 1..N, i - 1 \in Good PROVE i \in Good
  <2> SUFFICES ASSUME h[i].ok PROVE Alike(h[i], g[i], i)
    BY <1>0
  <2> DEFINE r == h[i - 1]
             s == g[i - 1]
             f == fields[i]
             x == Field(f, b, r.next, begin, end)
             y == Field(f, w, s.next, begin, end)
  <2>1. i - 1 \in 0..N /\ f \in FieldKinds /\ i \in Nat
    BY <1>0, <1>1
  <2>2. r \in RdataReads /\ s \in RdataReads /\ h[i] = FieldThen(b, f, begin, end, r)
        /\ g[i] = FieldThen(w, f, begin, end, s)
    BY <1>4, <2>1
  <2>3. r.ok => Alike(r, s, i - 1)
    BY <1>6
  <2> HIDE DEF r, s, f, Alike
  <2>4. r.ok /\ x.ok /\ h[i] = Read(Append(r.value, x.value), x.next)
    <3>1. FieldThen(b, f, begin, end, r).ok
      BY <2>2
    <3>2. /\ r.ok /\ x.ok
          /\ FieldThen(b, f, begin, end, r) = Read(Append(r.value, x.value), x.next)
      BY <1>0, <2>1, <2>2, <3>1, FieldThenIs
    <3> QED
      BY <2>2, <3>2
  <2>5. Alike(r, s, i - 1)
    BY <2>3, <2>4
  <2>6. s.ok /\ s.next = r.next
    BY <2>5 DEF Alike
  <2>7. r.next \in Nat /\ r.value \in Seq(FieldValues) /\ s.value \in Seq(FieldValues)
    BY <2>2 DEF RdataReads
  <2>8. y.ok /\ y.next = x.next /\ Kept(f, x.value, y.value)
    BY <2>1, <2>4, <2>6, <2>7, FieldAlike
  <2>9. g[i].ok
    <3>1. g[i] = [y EXCEPT !.value = Append(s.value, @)]
      BY <2>2, <2>6, <2>8 DEF FieldThen
    <3>2. IsRead(y)
      BY <1>0, <2>1, <2>6, <2>7, FieldIs
    <3> HIDE DEF y
    <3>3. "ok" \in DOMAIN y
      BY <3>2 DEF IsRead
    <3> QED
      BY <2>8, <3>1, <3>3
  <2>10. g[i] = Read(Append(s.value, y.value), y.next)
    BY <1>0, <2>1, <2>2, <2>9, FieldThenIs
  <2>11. x.value \in FieldValues /\ y.value \in FieldValues
    BY <1>0, <2>1, <2>4, <2>6, <2>7, <2>8, FieldIs
  <2> DEFINE u == x.value
             v == y.value
             m == x.next
  <2>12. h[i] = Read(Append(r.value, u), m) /\ g[i] = Read(Append(s.value, v), m)
         /\ Kept(f, u, v) /\ u \in FieldValues /\ v \in FieldValues
    BY <2>4, <2>8, <2>10, <2>11
  <2> HIDE DEF x, y, u, v, m
  <2>13. /\ Len(r.value) = i - 1 /\ Len(s.value) = i - 1
         /\ \A j \in 1..(i - 1) : Kept(fields[j], r.value[j], s.value[j])
    BY <2>5 DEF Alike
  <2> DEFINE c == Append(r.value, u)
             d == Append(s.value, v)
  <2>14. /\ Len(c) = i /\ Len(d) = i /\ c[i] = u /\ d[i] = v
         /\ \A j \in 1..(i - 1) : c[j] = r.value[j] /\ d[j] = s.value[j]
    BY <2>1, <2>7, <2>12, <2>13
  <2> HIDE DEF c, d
  <2>15. \A j \in 1..i : Kept(fields[j], c[j], d[j])
    <3> SUFFICES ASSUME NEW j \in 1..i PROVE Kept(fields[j], c[j], d[j])
      OBVIOUS
    <3>1. CASE j = i
      BY <2>12, <2>14, <3>1 DEF f
    <3>2. CASE j # i
      <4>1. j \in 1..(i - 1)
        BY <2>1, <3>2
      <4> QED
        BY <2>13, <2>14, <4>1
    <3> QED
      BY <3>1, <3>2
  <2>16. h[i] = Read(c, m) /\ g[i] = Read(d, m)
    BY <2>12 DEF c, d
  <2> QED
    BY <2>14, <2>15, <2>16 DEF Alike, Read
<1>7. N \in Good
  <2> HIDE DEF Good
  <2>1. \A i \in 0..N : i \in Good
    BY <1>0, <1>5, <1>6, Upward
  <2> QED
    BY <1>0, <2>1
<1>8. h[N].ok => Alike(h[N], g[N], N)
  BY <1>7
<1>9. h[N].value \in Seq(FieldValues) /\ g[N].value \in Seq(FieldValues)
  <2>1. N \in 0..N
    BY <1>0
  <2>2. h[N] \in RdataReads /\ g[N] \in RdataReads
    BY <1>4, <2>1
  <2> QED
    BY <2>2 DEF RdataReads
<1> HIDE DEF Good
<1> QED
  BY <1>2, <1>3, <1>8, <1>9 DEF fields, N

(* A record.                                                               *)
Records == [name : NameTexts, type : Nat, ttl : Seq(Octets), data : Seq(FieldValues)]

(* A record that is read of the cut is read of the whole, from the same    *)
(* bytes, but for the tails of fields that run to its end.                 *)
LEMMA RecordAlike ==
  ASSUME NEW b, NEW w, IsCut(b, w), NEW at \in Nat, Record(b, at).ok
  PROVE  /\ Record(w, at).ok /\ Record(w, at).next = Record(b, at).next
         /\ Record(b, at).next \in Nat /\ Record(b, at).value \in Records
         /\ SameButForATail(Record(b, at).value, Record(w, at).value)
<1> DEFINE name == ReadName(b, at)
           p == name.next
           type == U16(b, p)
           begin == p + 10
           end == begin + U16(b, p + 8)
           rdata == DecodeRdata(b, type, begin, end)
           more == DecodeRdata(w, type, begin, end)
           ttl == Slice(b, p + 4, p + 8)
           rec == [name |-> name.value, type |-> type, ttl |-> ttl, data |-> rdata.value]
           full == [name |-> name.value, type |-> type, ttl |-> ttl, data |-> more.value]
<1>0. IsBytes(b) /\ IsBytes(w) /\ Len(b) \in Nat
  BY BytesAre DEF IsCut
<1>1. /\ name.ok /\ Has(b, p, 10) /\ rdata.ok
      /\ Record(b, at) = Read(rec, end)
  BY DEF Record, Throws
<1>2. name \in NameReads /\ ReadName(w, at) = name
  BY <1>1, NameAlike
<1>3. p \in Nat /\ name.value \in NameTexts
  BY <1>2 DEF NameReads
<1>4. Has(w, p, 10) /\ U16(w, p) = type /\ type \in Nat
  <2>1. 10 \in Nat /\ 10 >= 2
    OBVIOUS
  <2> QED
    BY <1>1, <1>3, <2>1, BytesAlike
<1>5. U16(w, p + 8) = U16(b, p + 8) /\ U16(b, p + 8) \in Nat
  <2>1. p + 8 \in Nat /\ Has(b, p + 8, 2) /\ 2 \in Nat /\ 2 >= 2
    BY <1>0, <1>1, <1>3 DEF Has
  <2> QED
    BY <2>1, BytesAlike
<1>6. begin \in Nat /\ end \in Nat /\ begin <= end
  BY <1>3, <1>5
<1>7. ttl \in Seq(Octets) /\ Slice(w, p + 4, p + 8) = ttl
  <2>1. p + 4 \in Nat /\ p + 8 \in Nat /\ p + 8 <= Len(b)
    BY <1>0, <1>1, <1>3 DEF Has
  <2> QED
    BY <2>1, SliceAlike, ZenonT(30)
<1>8. /\ more.ok
      /\ rdata.value \in Seq(FieldValues) /\ more.value \in Seq(FieldValues)
      /\ Len(rdata.value) = Len(Layout(type)) /\ Len(more.value) = Len(Layout(type))
      /\ \A j \in 1..Len(more.value) : Kept(Layout(type)[j], rdata.value[j], more.value[j])
  <2> HIDE DEF begin, end, type
  <2> QED
    BY <1>1, <1>6, RdataAlike
<1>9. Record(w, at) = Read(full, end)
  <2>1. Record(w, at) =
          IF name.ok /\ Has(w, p, 10) /\ more.ok
          THEN Read([name |-> name.value, type |-> type,
                     ttl |-> Slice(w, p + 4, p + 8), data |-> more.value], end)
          ELSE Throws
    BY <1>2, <1>4, <1>5 DEF Record
  <2> QED
    BY <1>1, <1>4, <1>7, <1>8, <2>1
<1>10. rec \in Records
  <2> HIDE DEF name, p, type, ttl, rdata
  <2> QED
    BY <1>3, <1>4, <1>7, <1>8 DEF Records
<1>11. SameButForATail(rec, full)
  <2>1. [rec EXCEPT !.data = full.data] = full
    <3> HIDE DEF name, type, ttl, rdata, more
    <3> QED
      OBVIOUS
  <2>2. \A k \in 1..Len(full.data) : rec.data[k] = full.data[k] \/ TailLost(rec, full, k)
    BY <1>8 DEF Kept, TailLost
  <2>3. Len(rec.data) = Len(full.data)
    BY <1>8
  <2> QED
    BY <2>1, <2>2, <2>3 DEF SameButForATail
<1> HIDE DEF rec, full, end
<1> QED
  BY <1>1, <1>6, <1>9, <1>10, <1>11 DEF Read

-----------------------------------------------------------------------------
(* What is read when the questions, and then the records, of a message are *)
(* read one after the other.                                               *)
QuestionsPass(w, k, to) ==
  \E p \in [0..k -> Nat] :
    /\ p[0] = 12 /\ p[k] = to
    /\ \A i \in 1..k : ReadName(w, p[i - 1]).ok /\ p[i] = ReadName(w, p[i - 1]).next + 4

RecordsFollow(w, from, recs, to) ==
  \E p \in [0..Len(recs) -> Nat] :
    /\ p[0] = from /\ p[Len(recs)] = to
    /\ \A i \in 1..Len(recs) :
         /\ Record(w, p[i - 1]).ok /\ p[i] = Record(w, p[i - 1]).next
         /\ SameButForATail(recs[i], Record(w, p[i - 1]).value)

(* One question more, and one record more.                                 *)
LEMMA OneMoreQuestion ==
  ASSUME NEW w, NEW k \in Nat, NEW at \in Nat, QuestionsPass(w, k, at),
         ReadName(w, at).ok, ReadName(w, at).next \in Nat
  PROVE  QuestionsPass(w, k + 1, ReadName(w, at).next + 4)
<1> DEFINE to == ReadName(w, at).next + 4
<1>1. PICK p \in [0..k -> Nat] :
        /\ p[0] = 12 /\ p[k] = at
        /\ \A i \in 1..k : ReadName(w, p[i - 1]).ok /\ p[i] = ReadName(w, p[i - 1]).next + 4
  BY DEF QuestionsPass
<1> DEFINE q == [i \in 0..(k + 1) |-> IF i = k + 1 THEN to ELSE p[i]]
<1>2. q \in [0..(k + 1) -> Nat] /\ q[0] = 12 /\ q[k + 1] = to
  BY <1>1
<1>3. ASSUME NEW i \in 1..(k + 1)
      PROVE  ReadName(w, q[i - 1]).ok /\ q[i] = ReadName(w, q[i - 1]).next + 4
  <2>1. CASE i = k + 1
    <3>1. q[i - 1] = at /\ q[i] = to
      BY <1>1, <2>1
    <3> QED
      BY <3>1
  <2>2. CASE i # k + 1
    <3>1. i \in 1..k /\ q[i - 1] = p[i - 1] /\ q[i] = p[i]
      BY <2>2
    <3> QED
      BY <1>1, <3>1
  <2> QED
    BY <2>1, <2>2
<1> HIDE DEF q
<1> QED
  BY <1>2, <1>3 DEF QuestionsPass

LEMMA OneMoreRecord ==
  ASSUME NEW w, NEW from, NEW recs \in Seq(Records), NEW at \in Nat, RecordsFollow(w, from, recs, at),
         NEW rec \in Records, Record(w, at).ok, Record(w, at).next \in Nat,
         SameButForATail(rec, Record(w, at).value)
  PROVE  RecordsFollow(w, from, Append(recs, rec), Record(w, at).next)
<1> DEFINE to == Record(w, at).next
           k == Len(recs)
           now == Append(recs, rec)
<1>0. k \in Nat
  OBVIOUS
<1>n. Len(now) = k + 1 /\ now[k + 1] = rec /\ \A i \in 1..k : now[i] = recs[i]
  OBVIOUS
<1>1. PICK p \in [0..k -> Nat] :
        /\ p[0] = from /\ p[k] = at
        /\ \A i \in 1..k : /\ Record(w, p[i - 1]).ok /\ p[i] = Record(w, p[i - 1]).next
                           /\ SameButForATail(recs[i], Record(w, p[i - 1]).value)
  BY DEF RecordsFollow
<1> HIDE DEF now, k
<1> DEFINE q == [i \in 0..(k + 1) |-> IF i = k + 1 THEN to ELSE p[i]]
<1>2. q \in [0..(k + 1) -> Nat] /\ q[0] = from /\ q[k + 1] = to
  BY <1>0, <1>1
<1>3. ASSUME NEW i \in 1..(k + 1)
      PROVE  /\ Record(w, q[i - 1]).ok /\ q[i] = Record(w, q[i - 1]).next
             /\ SameButForATail(now[i], Record(w, q[i - 1]).value)
  <2>1. CASE i = k + 1
    <3>1. q[i - 1] = at /\ q[i] = to /\ now[i] = rec
      BY <1>0, <1>n, <1>1, <2>1
    <3> QED
      BY <3>1
  <2>2. CASE i # k + 1
    <3>1. i \in 1..k /\ q[i - 1] = p[i - 1] /\ q[i] = p[i] /\ now[i] = recs[i]
      BY <1>0, <1>n, <2>2
    <3> QED
      BY <1>1, <3>1
  <2> QED
    BY <2>1, <2>2
<1> HIDE DEF q
<1> QED
  BY <1>n, <1>2, <1>3 DEF RecordsFollow, now

(* What the call has read so far is what it would have read of a message   *)
(* that goes on where this one ends, but for the tails of fields.          *)
ReadOn(w) ==
  /\ stage = "questions" =>
       /\ left \in 0..U16(w, 4)
       /\ QuestionsPass(w, U16(w, 4) - left, offset)
  /\ stage \in {"answers", "fulfilled"} =>
       /\ U16(w, 6) = Len(answers) + left
       /\ \E q \in Nat : QuestionsPass(w, U16(w, 4), q) /\ RecordsFollow(w, q, answers, offset)
CutInv ==
  /\ stage = "idle" => answers = <<>> /\ left = 0
  /\ message.sort # "query" =>
       /\ IsBytes(message.bytes)
       /\ offset \in Nat /\ left \in Nat /\ answers \in Seq(Records)
       /\ stage = "questions" => answers = <<>>
       /\ stage \in {"questions", "answers", "fulfilled"} => Has(message.bytes, 6, 2)
       /\ stage = "fulfilled" => left = 0
       /\ \A w : IsCut(message.bytes, w) => ReadOn(w)

(* A message that is decoded is the beginning of no message but those that *)
(* are decoded to the same records, but for the tails of fields that run   *)
(* to the end of a record.                                                 *)
CutIsReadAlike ==
  message.sort # "query" /\ stage = "fulfilled" =>
    \A w \in Seq(0..255) : IsPrefix(message.bytes, w) =>
      /\ U16(w, 6) = Len(answers)
      /\ \E q, to \in Nat : QuestionsPass(w, U16(w, 4), q) /\ RecordsFollow(w, q, answers, to)

(* The counts in the header.                                               *)
LEMMA CountsAlike ==
  ASSUME NEW b, NEW w, IsCut(b, w), Has(b, 6, 2)
  PROVE  /\ U16(b, 4) \in Nat /\ U16(w, 4) = U16(b, 4)
         /\ U16(b, 6) \in Nat /\ U16(w, 6) = U16(b, 6)
<1>1. Len(b) \in Nat
  BY BytesAre DEF IsCut
<1>2. Has(b, 4, 2) /\ 4 \in Nat /\ 6 \in Nat /\ 2 \in Nat /\ 2 >= 2
  BY <1>1 DEF Has
<1> QED
  BY <1>2, BytesAlike

(* It is an invariant.                                                     *)
LEMMA CutInvStep == CutInv /\ [PureNext]_pureVars => CutInv'
<1> SUFFICES ASSUME CutInv, [PureNext]_pureVars PROVE CutInv'
  OBVIOUS
<1> USE DEF CutInv
<1> DEFINE b == message.bytes
<1>1. CASE UNCHANGED wireVars
  <2>1. /\ message' = message /\ stage' = stage /\ offset' = offset
        /\ left' = left /\ answers' = answers
    BY <1>1 DEF wireVars
  <2>2. ASSUME NEW w, ReadOn(w) PROVE ReadOn(w)'
    <3>1. stage' = "questions" =>
            /\ left' \in 0..U16(w, 4)
            /\ QuestionsPass(w, U16(w, 4) - left', offset')
      BY <2>1, <2>2 DEF ReadOn
    <3>2. stage' \in {"answers", "fulfilled"} =>
            /\ U16(w, 6) = Len(answers') + left'
            /\ \E q \in Nat : QuestionsPass(w, U16(w, 4), q) /\ RecordsFollow(w, q, answers', offset')
      BY <2>1, <2>2 DEF ReadOn
    <3> QED
      BY <3>1, <3>2 DEF ReadOn, QuestionsPass, RecordsFollow
  <2> QED
    BY <2>1, <2>2
<1>2. ASSUME NEW m \in Inputs, stage = "idle", ReadHeader(m) PROVE CutInv'
  <2>1. message' = m /\ offset' = 12 /\ answers' = <<>> /\ stage' # "idle"
    BY <1>2 DEF ReadHeader
  <2>2. IsBytes(m.bytes)
    BY WireAssumption DEF IsBytes, Octets
  <2>3. <<>> \in Seq(Records)
    OBVIOUS
  <2>4. CASE Has(m.bytes, 6, 2)
    <3>1. stage' = "questions" /\ left' = U16(m.bytes, 4)
      BY <1>2, <2>4 DEF ReadHeader
    <3>2. left' \in Nat
      <4>1. IsCut(m.bytes, m.bytes)
        BY <2>2, CutOfItself
      <4> QED
        BY <2>4, <3>1, <4>1, CountsAlike
    <3>3. ASSUME NEW w, IsCut(m.bytes, w) PROVE ReadOn(w)'
      <4>1. U16(w, 4) = left'
        BY <2>4, <3>1, <3>3, CountsAlike
      <4>2. U16(w, 4) - left' = 0 /\ left' \in 0..U16(w, 4)
        BY <3>2, <4>1
      <4>3. QuestionsPass(w, 0, 12)
        <5> DEFINE p == [i \in 0..0 |-> 12]
        <5>1. p \in [0..0 -> Nat] /\ p[0] = 12 /\ 1..0 = {}
          OBVIOUS
        <5> HIDE DEF p
        <5> QED
          BY <5>1 DEF QuestionsPass
      <4>4. QuestionsPass(w, U16(w, 4) - left', offset')
        BY <2>1, <4>2, <4>3
      <4> QED
        BY <3>1, <4>2, <4>4 DEF ReadOn, QuestionsPass
    <3> QED
      BY <2>1, <2>2, <2>3, <2>4, <3>1, <3>2, <3>3
  <2>5. CASE ~ Has(m.bytes, 6, 2)
    <3>1. stage' = "thrown" /\ left' = 0
      BY <1>2, <2>5 DEF ReadHeader
    <3>2. \A w : ReadOn(w)'
      BY <3>1 DEF ReadOn
    <3> QED
      BY <2>1, <2>2, <2>3, <3>1, <3>2
  <2> QED
    BY <2>4, <2>5
<1>3. ASSUME NEW q \in Queries, Encode(q) PROVE CutInv'
  BY <1>3 DEF Encode
<1>4. CASE SkipQuestion
  <2> SUFFICES ASSUME message.sort # "query" PROVE CutInv'
    BY <1>4 DEF SkipQuestion
  <2> DEFINE name == ReadName(b, offset)
  <2>1. /\ stage = "questions" /\ left > 0 /\ name.ok
        /\ offset' = name.next + 4 /\ left' = left - 1
        /\ message' = message /\ stage' = stage /\ answers' = answers
    BY <1>4 DEF SkipQuestion, Question
  <2>2. IsBytes(b) /\ offset \in Nat /\ left \in Nat
    OBVIOUS
  <2>3. name.next \in Nat
    <3>1. IsCut(b, b)
      BY <2>2, CutOfItself
    <3>2. name \in NameReads
      BY <2>2, <3>1, NameAlike
    <3> QED
      BY <3>2 DEF NameReads
  <2>4. ASSUME NEW w, IsCut(b, w) PROVE ReadOn(w)'
    <3>1. left \in 0..U16(w, 4) /\ QuestionsPass(w, U16(w, 4) - left, offset)
      BY <2>1, <2>4 DEF ReadOn
    <3>2. U16(w, 4) \in Nat
      <4>1. Has(b, 6, 2)
        BY <2>1
      <4> QED
        BY <2>4, <4>1, CountsAlike
    <3>3. ReadName(w, offset) = name
      BY <2>1, <2>2, <2>4, NameAlike
    <3> DEFINE k == U16(w, 4) - left
    <3>4. k \in Nat /\ U16(w, 4) - left' = k + 1 /\ left' \in 0..U16(w, 4)
      BY <2>1, <2>2, <3>1, <3>2
    <3>5. QuestionsPass(w, k, offset)
      BY <3>1
    <3> HIDE DEF k, name
    <3>6. QuestionsPass(w, k + 1, name.next + 4)
      BY <2>1, <2>2, <2>3, <3>3, <3>4, <3>5, OneMoreQuestion
    <3>7. QuestionsPass(w, U16(w, 4) - left', offset')
      BY <2>1, <3>4, <3>6
    <3> QED
      BY <2>1, <3>4, <3>7 DEF ReadOn, QuestionsPass
  <2>5. offset' \in Nat /\ left' \in Nat
    BY <2>1, <2>2, <2>3
  <2>6. \A w : IsCut(b', w) => ReadOn(w)'
    BY <2>1, <2>4
  <2> QED
    BY <2>1, <2>5, <2>6
<1>5. CASE QuestionsDone
  <2> SUFFICES ASSUME message.sort # "query" PROVE CutInv'
    BY <1>5 DEF QuestionsDone
  <2>1. /\ stage = "questions" /\ left = 0 /\ stage' = "answers" /\ left' = U16(b, 6)
        /\ message' = message /\ offset' = offset /\ answers' = answers /\ answers = <<>>
        /\ Has(b, 6, 2)
    BY <1>5 DEF QuestionsDone
  <2>2. ASSUME NEW w, IsCut(b, w) PROVE ReadOn(w)'
    <3>1. U16(w, 4) \in Nat /\ U16(w, 6) = U16(b, 6) /\ U16(b, 6) \in Nat
      BY <2>1, <2>2, CountsAlike
    <3>2. QuestionsPass(w, U16(w, 4) - left, offset)
      BY <2>1, <2>2 DEF ReadOn
    <3>3. QuestionsPass(w, U16(w, 4), offset)
      BY <2>1, <3>1, <3>2
    <3>4. RecordsFollow(w, offset, <<>>, offset)
      <4> DEFINE p == [i \in 0..0 |-> offset]
      <4>1. p \in [0..0 -> Nat] /\ p[0] = offset /\ 1..0 = {} /\ Len(<<>>) = 0
        OBVIOUS
      <4> HIDE DEF p
      <4> QED
        BY <4>1 DEF RecordsFollow
    <3>5. U16(w, 6) = Len(answers') + left'
      BY <2>1, <3>1
    <3>6. offset \in Nat
      OBVIOUS
    <3>7. \E q \in Nat : QuestionsPass(w, U16(w, 4), q) /\ RecordsFollow(w, q, answers', offset')
      BY <2>1, <3>3, <3>4, <3>6
    <3> QED
      BY <2>1, <3>5, <3>7 DEF ReadOn, QuestionsPass, RecordsFollow
  <2>3. left' \in Nat
    <3>1. IsCut(b, b)
      BY CutOfItself
    <3> QED
      BY <2>1, <3>1, CountsAlike
  <2>4. \A w : IsCut(b', w) => ReadOn(w)'
    BY <2>1, <2>2
  <2> QED
    BY <2>1, <2>3, <2>4
<1>6. CASE DecodeAnswer
  <2> SUFFICES ASSUME message.sort # "query" PROVE CutInv'
    BY <1>6 DEF DecodeAnswer
  <2> DEFINE r == Record(b, offset)
  <2>1. /\ stage = "answers" /\ left > 0 /\ r.ok
        /\ offset' = r.next /\ left' = left - 1 /\ answers' = Append(answers, r.value)
        /\ message' = message /\ stage' = stage
    BY <1>6 DEF DecodeAnswer, Answer
  <2>2. IsBytes(b) /\ offset \in Nat /\ left \in Nat /\ answers \in Seq(Records)
    OBVIOUS
  <2>3. r.next \in Nat /\ r.value \in Records
    <3>1. IsCut(b, b)
      BY <2>2, CutOfItself
    <3> QED
      BY <2>1, <2>2, <3>1, RecordAlike
  <2>4. ASSUME NEW w, IsCut(b, w) PROVE ReadOn(w)'
    <3>1. U16(w, 6) = Len(answers) + left
      BY <2>1, <2>4 DEF ReadOn
    <3>2. PICK q \in Nat : QuestionsPass(w, U16(w, 4), q) /\ RecordsFollow(w, q, answers, offset)
      BY <2>1, <2>4 DEF ReadOn
    <3>3. Record(w, offset).ok /\ Record(w, offset).next = r.next
          /\ SameButForATail(r.value, Record(w, offset).value)
      BY <2>1, <2>2, <2>4, RecordAlike
    <3> HIDE DEF r
    <3>4. RecordsFollow(w, q, Append(answers, r.value), r.next)
      <4>1. RecordsFollow(w, q, Append(answers, r.value), Record(w, offset).next)
        BY <2>2, <2>3, <3>2, <3>3, OneMoreRecord
      <4> QED
        BY <3>3, <4>1
    <3>5. RecordsFollow(w, q, answers', offset')
      BY <2>1, <3>4
    <3>6. U16(w, 6) = Len(answers') + left'
      <4>1. Len(answers') = Len(answers) + 1 /\ Len(answers) \in Nat
        BY <2>1, <2>2, <2>3
      <4> QED
        BY <2>1, <2>2, <3>1, <4>1
    <3> QED
      BY <2>1, <3>2, <3>5, <3>6, ZenonT(30) DEF ReadOn, QuestionsPass, RecordsFollow
  <2>5. offset' \in Nat /\ left' \in Nat /\ answers' \in Seq(Records)
    BY <2>1, <2>2, <2>3
  <2>6. \A w : IsCut(b', w) => ReadOn(w)'
    BY <2>1, <2>4
  <2> QED
    BY <2>1, <2>5, <2>6
<1>7. CASE ReturnMessage
  <2>1. /\ stage = "answers" /\ left = 0 /\ stage' = "fulfilled"
        /\ message' = message /\ offset' = offset /\ left' = left /\ answers' = answers
    BY <1>7 DEF ReturnMessage
  <2> QED
    BY <2>1, SMTT(30) DEF ReadOn, QuestionsPass, RecordsFollow
<1>8. CASE ThrowOut
  <2>1. /\ stage' = "thrown"
        /\ message' = message /\ offset' = offset /\ left' = left /\ answers' = answers
    BY <1>8 DEF ThrowOut
  <2> QED
    BY <2>1 DEF ReadOn
<1> QED
  BY <1>1, <1>2, <1>3, <1>4, <1>5, <1>6, <1>7, <1>8 DEF PureNext, WireNext, pureVars

(* Of a message that is accepted no continuation is read otherwise: the    *)
(* part that is missing of a truncated message was, at most, the tail of a *)
(* field that runs to the end of a record (wire.ts:457).                   *)
THEOREM CutsAreReadAlike == PureSpec => []CutIsReadAlike
<1>1. PureInit => CutInv
  <2> SUFFICES ASSUME PureInit PROVE CutInv
    OBVIOUS
  <2>1. message.bytes = <<>> /\ stage = "idle" /\ offset = 0 /\ left = 0 /\ answers = <<>>
    BY DEF PureInit, WireInit
  <2>2. <<>> \in Seq(Octets) /\ <<>> \in Seq(Records) /\ 0 \in Nat
    OBVIOUS
  <2> QED
    BY <2>1, <2>2 DEF CutInv, IsBytes, ReadOn
<1>2. CutInv => CutIsReadAlike
  <2> SUFFICES ASSUME CutInv, message.sort # "query", stage = "fulfilled",
                      NEW w \in Seq(0..255), IsPrefix(message.bytes, w)
               PROVE  /\ U16(w, 6) = Len(answers)
                      /\ \E q, to \in Nat : QuestionsPass(w, U16(w, 4), q) /\ RecordsFollow(w, q, answers, to)
    BY DEF CutIsReadAlike
  <2> DEFINE b == message.bytes
  <2>1. b \in Seq(Octets) /\ w \in Seq(Octets) /\ IsBytes(b) /\ IsBytes(w)
    BY DEF CutInv, IsBytes, Octets
  <2> HIDE DEF b
  <2>2. IsPrefix(b, w)
    BY DEF b
  <2>3. IsCut(b, w)
    BY <2>1, <2>2, BeginningIsCut
  <2>4. ReadOn(w) /\ left = 0 /\ offset \in Nat /\ answers \in Seq(Records)
    BY <2>3 DEF CutInv, b
  <2>5. Len(answers) \in Nat
    BY <2>4
  <2> QED
    BY <2>4, <2>5 DEF ReadOn
<1>3. CutInv /\ [PureNext]_pureVars => CutInv'
  BY CutInvStep
<1> QED
  BY <1>1, <1>2, <1>3, PTL DEF PureSpec

-----------------------------------------------------------------------------
(* What a message is, as the format says (RFC 1035, 4025, 4034 and 8659):  *)
(* where its names, its questions and its records lie, and of what bytes.  *)
(* Not how they are read: names, texts and bit maps are chains of places,  *)
(* with no recursion, no next byte to read and no failure in them.         *)

(* The bytes v, from byte `at` on.                                         *)
BytesAt(b, at, v) ==
  /\ at + Len(v) <= Len(b)
  /\ \A i \in 1..Len(v) : b[at + i] = v[i]

(* The same with their number in front of them.                            *)
CountedAt(b, at, v) == U8(b, at) = Len(v) /\ BytesAt(b, at + 1, v)

-----------------------------------------------------------------------------
(* Names *)

(* A name is spelt from place to place.  From a place x on it is x.name,   *)
(* and behind it the message goes on at x.next.                            *)
Places == [at : Nat, name : Seq(Seq(Nat)), next : Nat]

(* A label, up to the place y where the name goes on.                      *)
SpellsLabel(b, x, y) ==
  \E l \in Seq(Nat) :
    /\ 1 <= Len(l) /\ Len(l) <= 63 /\ CountedAt(b, x.at, l)
    /\ y.at = x.at + 1 + Len(l)
    /\ x.name = <<l>> \o y.name /\ x.next = y.next

(* A pointer to the place y where the name goes on.                        *)
SpellsPointer(b, x, y) ==
  /\ y.at < 16384 /\ BytesAt(b, x.at, <<192 + (y.at \div 256), y.at % 256>>)
  /\ x.name = y.name /\ x.next = x.at + 2

(* The root, where it ends.                                                *)
SpellsRoot(b, x) == BytesAt(b, x.at, <<0>>) /\ x.name = <<>> /\ x.next = x.at + 1

(* At most Rounds places: 127 labels, which is all that 255 bytes can be,  *)
(* each behind a pointer, and the root are 255.                            *)
LabelsAt(b, at, name, next) ==
  \E m \in 0..(Rounds - 1) : \E s \in [0..m -> Places] :
    /\ s[0] = [at |-> at, name |-> name, next |-> next]
    /\ \A i \in 1..m : SpellsLabel(b, s[i - 1], s[i]) \/ SpellsPointer(b, s[i - 1], s[i])
    /\ SpellsRoot(b, s[m])

(* The name is the text of the labels, with dots between them.             *)
NameAt(b, at, name, next) ==
  \E labels \in Seq(Seq(Nat)) : LabelsAt(b, at, labels, next) /\ name = Dotted(labels)

-----------------------------------------------------------------------------
(* The fields of a record *)

(* A text, in chunks one behind the other, each a text of its own.         *)
TextAt(b, at, v, end) ==
  \E m \in Nat : \E s \in [0..m -> [at : Nat, value : Seq(Octets)]] :
    /\ s[0] = [at |-> at, value |-> v] /\ s[m] = [at |-> end, value |-> <<>>]
    /\ \A i \in 1..m : \E c \in Seq(Octets) :
         /\ CountedAt(b, s[i - 1].at, c) /\ s[i].at = s[i - 1].at + 1 + Len(c)
         /\ s[i - 1].value = Decoded(c) \o s[i].value

(* The windows of a bit map, one behind the other.                         *)
TypesAt(b, at, v, end) ==
  \E m \in Nat : \E s \in [0..m -> [at : Nat, value : Seq(SUBSET Nat)]] :
    /\ s[0] = [at |-> at, value |-> v] /\ s[m] = [at |-> end, value |-> <<>>]
    /\ \A i \in 1..m :
         /\ s[i - 1].at + 2 <= Len(b)
         /\ s[i].at = s[i - 1].at + 2 + U8(b, s[i - 1].at + 1) /\ s[i].at <= Len(b)
         /\ s[i - 1].value = <<Window(b, s[i - 1].at)>> \o s[i].value

(* The tag of a key: the sum of its words, with the carries.               *)
TagAt(b, from, v, end) ==
  end <= Len(b) /\ \E ac : IsSumUp(b, from, end - from, ac) /\ v = TagOf(ac[end - from])

(* The type of a gateway, an algorithm, and the gateway.                   *)
GatewayAt(b, at, v, next) ==
  /\ at + 2 <= Len(b)
  /\ U8(b, at) \in {1, 2} =>
       /\ v \in Seq(Octets) /\ BytesAt(b, at + 2, v) /\ next = at + 2 + Len(v)
       /\ Len(v) = IF U8(b, at) = 1 THEN 4 ELSE 16
  /\ U8(b, at) = 3 => NameAt(b, at + 2, v, next)
  /\ U8(b, at) \notin {1, 2, 3} => v = <<>> /\ next = at + 2

(* The tag of a CAA record and its value, texts in one piece, and a size   *)
(* of a LOC record.                                                        *)
TagTextAt(b, at, v, next) ==
  \E c \in Seq(Octets) : CountedAt(b, at, c) /\ next = at + 1 + Len(c) /\ v = Decoded(c)
ValueAt(b, at, v, end) ==
  \E c \in Seq(Octets) : BytesAt(b, at, c) /\ at + Len(c) = end /\ v = Decoded(c)
SizeAt(b, at, v) ==
  \E m, e \in 0..15 : BytesAt(b, at, <<16 * m + e>>) /\ v = Centimetres(m, e)

(* A field f at byte `at`, with the next at `next`, of data from `begin`   *)
(* to `end`.                                                               *)
FieldAt(f, b, at, begin, end, v, next) ==
  CASE f \in DOMAIN Width -> /\ v \in Seq(Octets) /\ Len(v) = Width[f]
                             /\ BytesAt(b, at, v) /\ next = at + Len(v)
    [] f = "name" -> NameAt(b, at, v, next)
    [] f = "text" -> TextAt(b, at, v, end) /\ next = end
    [] f = "counted" -> v \in Seq(Octets) /\ CountedAt(b, at, v) /\ next = at + 1 + Len(v)
    [] f = "rest" -> v \in Seq(Octets) /\ BytesAt(b, at, v) /\ at + Len(v) = end /\ next = end
    [] f = "tag" -> TagTextAt(b, at, v, next)
    [] f = "value" -> ValueAt(b, at, v, end) /\ next = end
    [] f = "size" -> SizeAt(b, at, v) /\ next = at + 1
    [] f = "keyTag" -> TagAt(b, begin, v, end) /\ next = end
    [] f = "types" -> TypesAt(b, at, v, end) /\ next = end
    [] f = "gateway" -> GatewayAt(b, at, v, next)

-----------------------------------------------------------------------------
(* Records and messages *)

(* The fields of a record lie within its data, the q[k - 1]-th byte on the *)
(* k-th.                                                                   *)
DataAt(b, type, begin, end, data) ==
  /\ Len(data) = Len(Layout(type))
  /\ \E q \in [0..Len(data) -> Nat] :
       /\ q[0] = begin
       /\ \A k \in 1..Len(data) :
            /\ FieldAt(Layout(type)[k], b, q[k - 1], begin, end, data[k], q[k])
            /\ q[k] <= end

RecordAt(b, at, r, next) ==
  \E p \in Nat :
    /\ NameAt(b, at, r.name, p)
    /\ p + 10 <= Len(b) /\ next <= Len(b)
    /\ U16(b, p) = r.type
    /\ Len(r.ttl) = 4 /\ BytesAt(b, p + 4, r.ttl)
    /\ next = p + 10 + U16(b, p + 8)
    /\ DataAt(b, r.type, p + 10, next, r.data)

(* The questions lie at the bytes p[0], p[1], ..., the records at r[0],    *)
(* r[1], ...                                                               *)
IsLaidOut(b, recs, p, r) ==
  /\ b \in Seq(Octets) /\ Len(b) >= 12
  /\ p \in [0..U16(b, 4) -> Nat] /\ p[0] = 12
  /\ \A i \in 1..U16(b, 4) : \E name : \E next \in Nat :
       NameAt(b, p[i - 1], name, next) /\ p[i] = next + 4
  /\ recs \in Seq(Records) /\ U16(b, 6) = Len(recs)
  /\ r \in [0..Len(recs) -> Nat] /\ r[0] = p[U16(b, 4)]
  /\ \A i \in 1..Len(recs) : RecordAt(b, r[i - 1], recs[i], r[i])

IsMessage(b, recs) == \E p, r : IsLaidOut(b, recs, p, r)

(* Bytes that are there are read as what they are.                         *)
LEMMA BytesRead ==
  ASSUME NEW b, IsBytes(b), NEW at \in Nat, NEW v \in Seq(Nat), BytesAt(b, at, v)
  PROVE  /\ Has(b, at, Len(v)) /\ at + Len(v) <= Len(b)
         /\ \A i \in 1..Len(v) : U8(b, at + i - 1) = v[i]
         /\ Slice(b, at, at + Len(v)) = v
         /\ v \in Seq(Octets)
<1>1. /\ b \in Seq(Octets) /\ b \in Seq(Nat) /\ Len(b) \in Nat /\ Len(v) \in Nat
      /\ at + Len(v) <= Len(b) /\ \A i \in 1..Len(v) : b[at + i] = v[i]
  BY BytesAre DEF IsBytes, BytesAt
<1>2. ASSUME NEW i \in 1..Len(v) PROVE U8(b, at + i - 1) = v[i] /\ v[i] \in Octets
  <2>1. at + i - 1 + 1 = at + i /\ at + i \in 1..Len(b)
    BY <1>1
  <2> QED
    BY <1>1, <2>1 DEF U8
<1> DEFINE e == at + Len(v)
           c == SubSeq(b, at + 1, e)
<1>3. e \in Nat /\ e <= Len(b) /\ e + 1 - (at + 1) = Len(v)
  BY <1>1
<1>4. Slice(b, at, e) = c
  BY <1>1, <1>3 DEF Slice
<1>5. /\ c \in Seq(Nat) /\ Len(c) = Len(v)
      /\ \A j \in Nat : 1 <= j /\ j <= Len(v) => c[j] = b[at + 1 + j - 1]
  <2>1. at + 1 \in Nat /\ 1 <= at + 1 /\ at + 1 <= e + 1
    BY <1>1, <1>3
  <2> QED
    BY <1>1, <1>3, <2>1, Part
<1> HIDE DEF c, e
<1>6. \A j \in Nat : 1 <= j /\ j <= Len(v) => c[j] = v[j]
  <2> SUFFICES ASSUME NEW j \in Nat, 1 <= j, j <= Len(v) PROVE c[j] = v[j]
    OBVIOUS
  <2>1. j \in 1..Len(v) /\ at + 1 + j - 1 = at + j
    BY <1>1
  <2> QED
    BY <1>1, <1>5, <2>1
<1>7. c = v
  BY <1>1, <1>5, <1>6, SameSequence
<1>8. v \in Seq(Octets)
  <2>1. IsCut(b, b) /\ at + Len(v) \in Nat
    BY <1>1, CutOfItself
  <2>2. Slice(b, at, at + Len(v)) \in Seq(Octets)
    BY <2>1, SliceAlike
  <2> QED
    BY <1>4, <1>7, <2>2 DEF e
<1>9. Has(b, at, Len(v))
  BY <1>1 DEF Has
<1> QED
  BY <1>1, <1>2, <1>4, <1>7, <1>8, <1>9 DEF e

(* A number of bytes and the bytes.                                        *)
LEMMA CountedRead ==
  ASSUME NEW b, IsBytes(b), NEW at \in Nat, NEW v \in Seq(Nat), CountedAt(b, at, v)
  PROVE  /\ Has(b, at, 1) /\ U8(b, at) = Len(v) /\ at + 1 + Len(v) <= Len(b)
         /\ Slice(b, at + 1, at + 1 + U8(b, at)) = v
         /\ Counted8(b, at) = Read(v, at + 1 + Len(v))
         /\ v \in Seq(Octets)
<1>1. U8(b, at) = Len(v) /\ BytesAt(b, at + 1, v) /\ at + 1 \in Nat /\ Len(v) \in Nat /\ Len(b) \in Nat
  BY BytesAre DEF CountedAt
<1>2. /\ (at + 1) + Len(v) <= Len(b) /\ Slice(b, at + 1, (at + 1) + Len(v)) = v
      /\ v \in Seq(Octets)
  BY <1>1, BytesRead
<1>3. Has(b, at, 1)
  BY <1>1, <1>2 DEF Has
<1> QED
  BY <1>1, <1>2, <1>3 DEF Counted8

(* The two bytes of a pointer.                                             *)
LEMMA PointerBytes ==
  ASSUME NEW z \in Nat, z < 16384
  PROVE  /\ 192 + (z \div 256) \in Nat /\ 192 + (z \div 256) >= 192 /\ z % 256 \in Nat
         /\ ((192 + (z \div 256)) * 256 + (z % 256)) % 16384 = z
<1>1. z \div 256 \in Nat /\ z % 256 \in Nat
  OBVIOUS
<1>2. (z \div 256) * 256 + (z % 256) = z
  BY TwoBytes
<1>3. (49152 + z) % 16384 = z
  OBVIOUS
<1> DEFINE a == z \div 256
           c == z % 256
<1>4. a \in Nat /\ c \in Nat /\ a * 256 + c = z
  BY <1>1, <1>2
<1> HIDE DEF a, c
<1>5. (192 + a) * 256 + c = 49152 + z /\ 192 + a >= 192 /\ 192 + a \in Nat
  BY <1>4
<1> QED
  BY <1>3, <1>4, <1>5 DEF a, c

(* The labels are read as they are spelt.                                  *)
LEMMA LabelsRead ==
  ASSUME NEW b, IsBytes(b), NEW at, NEW name, NEW next, LabelsAt(b, at, name, next)
  PROVE  /\ ReadLabels(b, at) = Read(name, next)
         /\ at \in Nat /\ name \in Seq(Seq(Nat)) /\ next \in Nat
<1>0. PICK m \in 0..(Rounds - 1) : \E s \in [0..m -> Places] :
        /\ s[0] = [at |-> at, name |-> name, next |-> next]
        /\ \A i \in 1..m : SpellsLabel(b, s[i - 1], s[i]) \/ SpellsPointer(b, s[i - 1], s[i])
        /\ SpellsRoot(b, s[m])
  BY Zenon DEF LabelsAt
<1>1. PICK s \in [0..m -> Places] :
        /\ s[0] = [at |-> at, name |-> name, next |-> next]
        /\ \A i \in 1..m : SpellsLabel(b, s[i - 1], s[i]) \/ SpellsPointer(b, s[i - 1], s[i])
        /\ SpellsRoot(b, s[m])
  BY <1>0
<1>2. Rounds \in Nat /\ m \in Nat /\ m < Rounds
  BY WireAssumption
<1>3. b \in Seq(Nat) /\ Len(b) \in Nat
  BY BytesAre
<1>4. PICK F : IsReader(b, F) /\ \A x : ReadLabels(b, x) = F[Rounds][x]
  BY <1>3, ReaderExists
<1>5. /\ F \in [0..Rounds -> [Nat -> LabelReads]]
      /\ \A k \in 1..Rounds : \A pos \in Nat : F[k][pos] = Round(b, pos, F[k - 1])
  BY <1>4 DEF IsReader
<1>6. ASSUME NEW i \in 0..m
      PROVE  s[i].at \in Nat /\ s[i].name \in Seq(Seq(Nat)) /\ s[i].next \in Nat
  <2>1. s[i] \in Places
    BY <1>1
  <2> QED
    BY <2>1 DEF Places
<1> DEFINE Spelt(k, i) == F[k][s[i].at] = Read(s[i].name, s[i].next)
           Good == {j \in Nat : \A k \in 1..Rounds : k > j => Spelt(k, m - j)}
<1>7. 0 \in Good
  <2> SUFFICES ASSUME NEW k \in 1..Rounds PROVE Spelt(k, m)
    BY <1>2
  <2> DEFINE x == s[m]
  <2>1. x.at \in Nat /\ BytesAt(b, x.at, <<0>>) /\ x.name = <<>> /\ x.next = x.at + 1
    <3>1. m \in 0..m
      BY <1>2
    <3> QED
      BY <1>1, <1>6, <3>1 DEF SpellsRoot
  <2> HIDE DEF x
  <2>2. Has(b, x.at, 1) /\ U8(b, x.at) = 0
    <3>1. x.at + 1 <= Len(b) /\ b[x.at + 1] = 0
      BY <2>1 DEF BytesAt
    <3> QED
      BY <3>1 DEF Has, U8
  <2>3. F[k][x.at] = Round(b, x.at, F[k - 1])
    BY <1>5, <2>1
  <2>4. Round(b, x.at, F[k - 1]) = Read(<<>>, x.at + 1)
    BY <2>2 DEF Round
  <2> QED
    BY <2>1, <2>3, <2>4 DEF x
<1>8. ASSUME NEW j \in 1..m, j - 1 \in Good PROVE j \in Good
  <2> SUFFICES ASSUME NEW k \in 1..Rounds, k > j PROVE Spelt(k, m - j)
    BY <1>2
  <2> DEFINE i == m - j
             x == s[i]
             y == s[i + 1]
  <2>1. i \in 0..m /\ i + 1 \in 1..m /\ i + 1 \in 0..m /\ (i + 1) - 1 = i /\ m - (j - 1) = i + 1
    BY <1>2
  <2>2. k - 1 \in 1..Rounds /\ k - 1 > j - 1
    BY <1>2
  <2>3. F[k - 1][y.at] = Read(y.name, y.next)
    BY <1>8, <2>1, <2>2
  <2>4. SpellsLabel(b, x, y) \/ SpellsPointer(b, x, y)
    <3> HIDE DEF i
    <3> QED
      BY <1>1, <2>1
  <2>5. x.at \in Nat /\ y.at \in Nat
    BY <1>6, <2>1
  <2>6. F[k][x.at] = Round(b, x.at, F[k - 1])
    BY <1>5, <2>5
  <2> HIDE DEF x, y, i
  <2>7. CASE SpellsLabel(b, x, y)
    <3>1. PICK l \in Seq(Nat) :
            /\ 1 <= Len(l) /\ Len(l) <= 63 /\ CountedAt(b, x.at, l)
            /\ y.at = x.at + 1 + Len(l)
            /\ x.name = <<l>> \o y.name /\ x.next = y.next
      BY <2>7 DEF SpellsLabel
    <3>2. Has(b, x.at, 1) /\ U8(b, x.at) = Len(l) /\ Slice(b, x.at + 1, x.at + 1 + U8(b, x.at)) = l
      BY <2>5, <3>1, CountedRead
    <3>3. U8(b, x.at) # 0 /\ U8(b, x.at) < 192 /\ x.at + 1 + U8(b, x.at) = y.at
      BY <3>1, <3>2
    <3>4. Round(b, x.at, F[k - 1]) = Labelled(l, F[k - 1][y.at])
      <4>1. Round(b, x.at, F[k - 1]) =
              Labelled(Slice(b, x.at + 1, x.at + 1 + U8(b, x.at)), F[k - 1][x.at + 1 + U8(b, x.at)])
        BY <3>2, <3>3, LabelRound
      <4> QED
        BY <3>2, <3>3, <4>1
    <3>5. F[k][x.at] = Read(<<l>> \o y.name, y.next)
      BY <2>3, <2>6, <3>4, LabelledRead
    <3> QED
      BY <3>1, <3>5 DEF x, i
  <2>8. CASE SpellsPointer(b, x, y)
    <3> DEFINE hi == 192 + (y.at \div 256)
               lo == y.at % 256
    <3>1. y.at < 16384 /\ BytesAt(b, x.at, <<hi, lo>>) /\ x.name = y.name /\ x.next = x.at + 2
      BY <2>8 DEF SpellsPointer
    <3>2. hi \in Nat /\ hi >= 192 /\ lo \in Nat /\ (hi * 256 + lo) % 16384 = y.at
      <4> DEFINE z == y.at
      <4>1. z \in Nat /\ z < 16384
        BY <2>5, <3>1
      <4> HIDE DEF z
      <4>2. /\ 192 + (z \div 256) \in Nat /\ 192 + (z \div 256) >= 192 /\ z % 256 \in Nat
            /\ ((192 + (z \div 256)) * 256 + (z % 256)) % 16384 = z
        BY <4>1, PointerBytes
      <4> QED
        BY <4>2 DEF z, hi, lo
    <3> HIDE DEF hi, lo
    <3>3. x.at + 2 <= Len(b) /\ b[x.at + 1] = hi /\ b[x.at + 2] = lo
      <4> DEFINE v == <<hi, lo>>
      <4>1. Len(v) = 2 /\ v[1] = hi /\ v[2] = lo /\ 1 \in 1..2 /\ 2 \in 1..2
        OBVIOUS
      <4> HIDE DEF v
      <4> QED
        BY <3>1, <4>1 DEF BytesAt, v
    <3>4. /\ Has(b, x.at, 1) /\ Has(b, x.at, 2) /\ U8(b, x.at) = hi /\ U16(b, x.at) = hi * 256 + lo
      <4>1. (x.at + 1) + 1 = x.at + 2
        BY <2>5
      <4> QED
        BY <1>3, <2>5, <3>3, <4>1 DEF Has, U8, U16
    <3>5. U8(b, x.at) # 0 /\ ~ (U8(b, x.at) < 192) /\ U16(b, x.at) % 16384 = y.at
      BY <3>2, <3>4
    <3>6. Round(b, x.at, F[k - 1]) = Jumped(F[k - 1][y.at], x.at)
      BY <3>4, <3>5 DEF Round
    <3>7. Jumped(Read(y.name, y.next), x.at) = Read(y.name, x.at + 2)
      <4>1. \A v, q, o : [[ok |-> o, value |-> v, next |-> q] EXCEPT !.next = x.at + 2]
                            = [ok |-> o, value |-> v, next |-> x.at + 2]
        OBVIOUS
      <4> QED
        BY <4>1 DEF Jumped, Read
    <3> QED
      BY <2>3, <2>6, <3>1, <3>6, <3>7 DEF x, i
  <2> QED
    BY <2>4, <2>7, <2>8
<1>9. m \in Good
  <2> HIDE DEF Good
  <2>1. \A j \in 0..m : j \in Good
    BY <1>2, <1>7, <1>8, Upward
  <2> QED
    BY <1>2, <2>1
<1>10. Spelt(Rounds, 0)
  <2>1. Rounds \in 1..Rounds /\ m - m = 0 /\ Rounds > m
    BY <1>2
  <2> QED
    BY <1>9, <2>1
<1>11. s[0].at = at /\ s[0].name = name /\ s[0].next = next /\ 0 \in 0..m
  BY <1>1, <1>2
<1> QED
  BY <1>4, <1>6, <1>10, <1>11

(* A name is read as what its labels say.                                  *)
LEMMA NameRead ==
  ASSUME NEW b, IsBytes(b), NEW at, NEW name, NEW next, NameAt(b, at, name, next)
  PROVE  /\ ReadName(b, at) = Read(name, next)
         /\ at \in Nat /\ name \in NameTexts /\ next \in Nat
<1>1. PICK labels \in Seq(Seq(Nat)) : LabelsAt(b, at, labels, next) /\ name = Dotted(labels)
  BY DEF NameAt
<1>2. ReadLabels(b, at) = Read(labels, next) /\ at \in Nat /\ next \in Nat
  BY <1>1, LabelsRead
<1>3. ReadName(b, at) = [ok |-> ReadLabels(b, at).ok, value |-> Dotted(ReadLabels(b, at).value),
                         next |-> ReadLabels(b, at).next]
  BY <1>2, NameIs
<1> QED
  BY <1>1, <1>2, <1>3 DEF Read, NameTexts

-----------------------------------------------------------------------------
(* What lies before the place where a message is cut off is still there.   *)
LEMMA BytesLeft ==
  ASSUME NEW b, NEW w, IsCut(b, w), NEW at \in Nat, NEW v, Len(v) \in Nat,
         BytesAt(w, at, v), at + Len(v) <= Len(b)
  PROVE  BytesAt(b, at, v)
<1>1. /\ b \in Seq(Octets) /\ Len(b) \in Nat
      /\ \A i \in 1..Len(b) : b[i] = w[i]
  BY BytesAre DEF IsCut, IsBytes
<1>2. ASSUME NEW i \in 1..Len(v) PROVE b[at + i] = v[i]
  <2>1. at + i \in 1..Len(b)
    BY <1>1
  <2>2. w[at + i] = v[i]
    BY DEF BytesAt
  <2> QED
    BY <1>1, <2>1, <2>2
<1> QED
  BY <1>2 DEF BytesAt

LEMMA CountedLeft ==
  ASSUME NEW b, NEW w, IsCut(b, w), NEW at \in Nat, NEW v, Len(v) \in Nat,
         CountedAt(w, at, v), at + 1 + Len(v) <= Len(b)
  PROVE  CountedAt(b, at, v)
<1>1. U8(w, at) = Len(v) /\ BytesAt(w, at + 1, v) /\ at + 1 \in Nat /\ (at + 1) + Len(v) <= Len(b)
  BY DEF CountedAt
<1>2. BytesAt(b, at + 1, v)
  BY <1>1, BytesLeft
<1>3. Len(b) \in Nat
  BY BytesAre DEF IsCut
<1>4. Has(b, at, 1)
  BY <1>1, <1>3 DEF Has
<1>5. U8(w, at) = U8(b, at)
  BY <1>4, ByteAlike
<1> QED
  BY <1>1, <1>2, <1>5 DEF CountedAt

(* A text is read as its chunks.                                           *)
LEMMA TextRead ==
  ASSUME NEW b, NEW w, IsCut(b, w), NEW at \in Nat, NEW end \in Nat, end <= Len(b),
         NEW v, TextAt(w, at, v, end)
  PROVE  Text(b, at, end) = Read(v, end)
<1>0. PICK m \in Nat : \E s \in [0..m -> [at : Nat, value : Seq(Octets)]] :
        /\ s[0] = [at |-> at, value |-> v] /\ s[m] = [at |-> end, value |-> <<>>]
        /\ \A i \in 1..m : \E c \in Seq(Octets) :
             /\ CountedAt(w, s[i - 1].at, c) /\ s[i].at = s[i - 1].at + 1 + Len(c)
             /\ s[i - 1].value = Decoded(c) \o s[i].value
  BY Zenon DEF TextAt
<1>1. PICK s \in [0..m -> [at : Nat, value : Seq(Octets)]] :
        /\ s[0] = [at |-> at, value |-> v] /\ s[m] = [at |-> end, value |-> <<>>]
        /\ \A i \in 1..m : \E c \in Seq(Octets) :
             /\ CountedAt(w, s[i - 1].at, c) /\ s[i].at = s[i - 1].at + 1 + Len(c)
             /\ s[i - 1].value = Decoded(c) \o s[i].value
  BY <1>0
<1>2. IsBytes(b) /\ Len(b) \in Nat
  BY BytesAre DEF IsCut
<1>3. PICK h : IsTextScan(b, end, h) /\ \A x : Text(b, x, end) = h[x]
  BY <1>2, TextScanExists
<1>4. \A pos \in Nat : h[pos] = IF pos >= end THEN Read(<<>>, pos)
                                ELSE ChunkThen(b, pos, h[NextChunk(b, pos)])
  BY <1>3 DEF IsTextScan
<1>5. \A i \in 0..m : s[i].at \in Nat
  BY <1>1
<1> DEFINE Good == {j \in Nat : s[m - j].at <= end /\ h[s[m - j].at] = Read(s[m - j].value, end)}
<1>6. 0 \in Good
  <2>1. h[end] = Read(<<>>, end)
    BY <1>4
  <2>2. m - 0 = m /\ s[m].at = end /\ s[m].value = <<>>
    BY <1>1
  <2> QED
    BY <2>1, <2>2
<1>7. ASSUME NEW j \in 1..m, j - 1 \in Good PROVE j \in Good
  <2> DEFINE i == m - (j - 1)
             x == s[i - 1]
             y == s[i]
  <2>1. i \in 1..m /\ i \in 0..m /\ i - 1 \in 0..m /\ m - j = i - 1 /\ j \in Nat
    OBVIOUS
  <2>2. y.at <= end /\ h[y.at] = Read(y.value, end)
    BY <1>7
  <2> HIDE DEF i, Good
  <2>3. PICK c \in Seq(Octets) :
          CountedAt(w, x.at, c) /\ y.at = x.at + 1 + Len(c) /\ x.value = Decoded(c) \o y.value
    BY <1>1, <2>1
  <2>4. x.at \in Nat /\ y.at \in Nat /\ Len(c) \in Nat /\ c \in Seq(Nat)
    <3>1. x.at \in Nat /\ y.at \in Nat
      BY <1>5, <2>1
    <3>2. Len(c) \in Nat /\ c \in Seq(Nat)
      BY BytesAre DEF IsBytes
    <3> QED
      BY <3>1, <3>2
  <2> HIDE DEF x, y
  <2>5. x.at < end /\ x.at + 1 + Len(c) <= Len(b)
    BY <1>2, <2>2, <2>3, <2>4
  <2>6. CountedAt(b, x.at, c)
    BY <2>3, <2>4, <2>5, CountedLeft
  <2>7. Counted8(b, x.at) = Read(c, y.at)
    BY <1>2, <2>3, <2>4, <2>6, CountedRead
  <2>8. NextChunk(b, x.at) = y.at /\ Counted8(b, x.at).ok /\ Counted8(b, x.at).value = c
    BY <2>7 DEF NextChunk, Read
  <2>9. h[x.at] = ChunkThen(b, x.at, h[y.at])
    BY <1>4, <2>4, <2>5, <2>8
  <2>10. ChunkThen(b, x.at, Read(y.value, end)) = Read(Decoded(c) \o y.value, end)
    <3>1. ChunkThen(b, x.at, Read(y.value, end)) = [Read(y.value, end) EXCEPT !.value = Decoded(c) \o y.value]
      BY <2>8 DEF ChunkThen, Read
    <3> QED
      BY <3>1, WithValue DEF Read
  <2>11. h[x.at] = Read(x.value, end)
    BY <2>2, <2>3, <2>9, <2>10
  <2>12. x.at <= end
    BY <2>4, <2>5
  <2> QED
    BY <2>1, <2>11, <2>12 DEF x, Good
<1>8. m \in Good
  <2> HIDE DEF Good
  <2>1. \A j \in 0..m : j \in Good
    BY <1>6, <1>7, Upward
  <2> QED
    BY <2>1
<1>9. m - m = 0 /\ s[0].at = at /\ s[0].value = v
  BY <1>1
<1> QED
  BY <1>3, <1>8, <1>9

(* A bit map is read as its windows.                                       *)
LEMMA TypesRead ==
  ASSUME NEW b, IsBytes(b), NEW at \in Nat, NEW end \in Nat, end <= Len(b),
         NEW v, TypesAt(b, at, v, end)
  PROVE  Types(b, at, end) = Read(v, end)
<1>0. PICK m \in Nat : \E s \in [0..m -> [at : Nat, value : Seq(SUBSET Nat)]] :
        /\ s[0] = [at |-> at, value |-> v] /\ s[m] = [at |-> end, value |-> <<>>]
        /\ \A i \in 1..m :
             /\ s[i - 1].at + 2 <= Len(b)
             /\ s[i].at = s[i - 1].at + 2 + U8(b, s[i - 1].at + 1) /\ s[i].at <= Len(b)
             /\ s[i - 1].value = <<Window(b, s[i - 1].at)>> \o s[i].value
  BY Zenon DEF TypesAt
<1>1. PICK s \in [0..m -> [at : Nat, value : Seq(SUBSET Nat)]] :
        /\ s[0] = [at |-> at, value |-> v] /\ s[m] = [at |-> end, value |-> <<>>]
        /\ \A i \in 1..m :
             /\ s[i - 1].at + 2 <= Len(b)
             /\ s[i].at = s[i - 1].at + 2 + U8(b, s[i - 1].at + 1) /\ s[i].at <= Len(b)
             /\ s[i - 1].value = <<Window(b, s[i - 1].at)>> \o s[i].value
  BY <1>0
<1>2. Len(b) \in Nat /\ \A pos \in Nat : pos < Len(b) => U8(b, pos) \in Nat
  BY BytesAre
<1>3. PICK h : IsTypesScan(b, end, h) /\ \A x : Types(b, x, end) = h[x]
  BY TypesScanExists
<1>4. \A pos \in Nat : h[pos] = IF pos + 2 > end THEN Read(<<>>, pos)
                                ELSE WindowThen(b, pos, h[NextWindow(b, pos)])
  BY <1>3 DEF IsTypesScan
<1>5. \A i \in 0..m : s[i].at \in Nat
  BY <1>1
<1> DEFINE Good == {j \in Nat : s[m - j].at <= end /\ h[s[m - j].at] = Read(s[m - j].value, end)}
<1>6. 0 \in Good
  <2>1. h[end] = Read(<<>>, end)
    BY <1>4
  <2>2. m - 0 = m /\ s[m].at = end /\ s[m].value = <<>>
    BY <1>1
  <2> QED
    BY <2>1, <2>2
<1>7. ASSUME NEW j \in 1..m, j - 1 \in Good PROVE j \in Good
  <2> DEFINE i == m - (j - 1)
             x == s[i - 1]
             y == s[i]
  <2>1. i \in 1..m /\ i \in 0..m /\ i - 1 \in 0..m /\ m - j = i - 1 /\ j \in Nat
    OBVIOUS
  <2>2. y.at <= end /\ h[y.at] = Read(y.value, end)
    BY <1>7
  <2> HIDE DEF i, Good
  <2> DEFINE k == U8(b, x.at + 1)
             c == Window(b, x.at)
  <2>3. x.at + 2 <= Len(b) /\ y.at = x.at + 2 + k /\ y.at <= Len(b) /\ x.value = <<c>> \o y.value
    BY <1>1, <2>1
  <2>4. x.at \in Nat /\ y.at \in Nat
    BY <1>5, <2>1
  <2> HIDE DEF x, y
  <2>5. k \in Nat
    <3>1. x.at + 1 \in Nat /\ x.at + 1 < Len(b)
      BY <1>2, <2>3, <2>4, SMTT(60)
    <3> QED
      BY <1>2, <3>1
  <2>6. x.at + 2 <= end /\ x.at <= end /\ x.at + 2 <= Len(b) /\ x.at + 2 + k <= Len(b)
    BY <1>2, <2>2, <2>3, <2>4, <2>5, SMTT(60)
  <2>7. HasWindow(b, x.at) /\ NextWindow(b, x.at) = y.at
    BY <2>3, <2>6 DEF HasWindow, NextWindow, Has
  <2>8. h[x.at] = WindowThen(b, x.at, h[y.at])
    <3>1. ~ (x.at + 2 > end)
      BY <2>4, <2>6
    <3> QED
      BY <1>4, <2>4, <2>7, <3>1
  <2>9. WindowThen(b, x.at, Read(y.value, end)) = Read(<<c>> \o y.value, end)
    <3>1. WindowThen(b, x.at, Read(y.value, end)) = [Read(y.value, end) EXCEPT !.value = <<c>> \o y.value]
      BY <2>7 DEF WindowThen, Read
    <3> HIDE DEF c
    <3> QED
      BY <3>1, WithValue DEF Read
  <2>10. h[x.at] = Read(x.value, end)
    BY <2>2, <2>3, <2>8, <2>9
  <2> QED
    BY <2>1, <2>6, <2>10 DEF x, Good
<1>8. m \in Good
  <2> HIDE DEF Good
  <2>1. \A j \in 0..m : j \in Good
    BY <1>6, <1>7, Upward
  <2> QED
    BY <2>1
<1>9. m - m = 0 /\ s[0].at = at /\ s[0].value = v
  BY <1>1
<1> QED
  BY <1>3, <1>8, <1>9

(* The tag of a key is the sum of its words.                               *)
LEMMA TagRead ==
  ASSUME NEW b, IsBytes(b), NEW from \in Nat, NEW end \in Nat, from <= end, end <= Len(b),
         NEW v, TagAt(b, from, v, end)
  PROVE  KeyTag(b, from, end) = Read(v, end)
<1> DEFINE N == end - from
<1>0. N \in Nat
  OBVIOUS
<1>1. PICK ac : IsSumUp(b, from, N, ac) /\ v = TagOf(ac[N])
  BY DEF TagAt
<1>2. ac[0] = 0 /\ \A i \in 1..N : ac[i] = ac[i - 1] + Weighted(b, from, i)
  BY <1>1 DEF IsSumUp
<1>3. PICK h : IsSumUp(b, from, N, h) /\ KeyTag(b, from, end) = Read(TagOf(h[N]), end)
  BY KeyTagIs
<1>4. h[0] = 0 /\ \A i \in 1..N : h[i] = h[i - 1] + Weighted(b, from, i)
  BY <1>3 DEF IsSumUp
<1> HIDE DEF N
<1> DEFINE Good == {i \in Nat : h[i] = ac[i]}
<1>5. 0 \in Good
  BY <1>2, <1>4
<1>6. ASSUME NEW i \in 1..N, i - 1 \in Good PROVE i \in Good
  <2>1. h[i - 1] = ac[i - 1]
    BY <1>6
  <2>2. h[i] = ac[i]
    BY <1>2, <1>4, <2>1
  <2> QED
    BY <1>0, <2>2
<1>7. N \in Good
  <2> HIDE DEF Good
  <2>1. \A i \in 0..N : i \in Good
    BY <1>0, <1>5, <1>6, Upward
  <2> QED
    BY <1>0, <2>1
<1>8. h[N] = ac[N]
  BY <1>7
<1> QED
  BY <1>1, <1>3, <1>8

(* Bytes are read as so many.                                              *)
LEMMA FixedRead ==
  ASSUME NEW b, IsBytes(b), NEW at \in Nat, NEW v \in Seq(Octets), BytesAt(b, at, v)
  PROVE  /\ Fixed(b, at, Len(v)) = Read(v, at + Len(v))
         /\ Slice(b, at, at + Len(v)) = v /\ at + Len(v) <= Len(b)
<1>1. v \in Seq(Nat)
  BY BytesAre DEF IsBytes
<1>2. Has(b, at, Len(v)) /\ Slice(b, at, at + Len(v)) = v /\ at + Len(v) <= Len(b)
  BY <1>1, BytesRead
<1> QED
  BY <1>2 DEF Fixed

(* A gateway is read by its type.                                          *)
LEMMA GatewayRead ==
  ASSUME NEW b, IsBytes(b), NEW at \in Nat, NEW v, NEW next, GatewayAt(b, at, v, next)
  PROVE  Gateway(b, at) = Read(v, next)
<1>1. Has(b, at, 2) /\ at + 2 \in Nat
  BY DEF GatewayAt, Has
<1>2. ASSUME U8(b, at) \in {1, 2}
      PROVE  Fixed(b, at + 2, IF U8(b, at) = 1 THEN 4 ELSE 16) = Read(v, next)
  <2>1. /\ v \in Seq(Octets) /\ BytesAt(b, at + 2, v) /\ next = at + 2 + Len(v)
        /\ Len(v) = IF U8(b, at) = 1 THEN 4 ELSE 16
    BY <1>2 DEF GatewayAt
  <2>2. Fixed(b, at + 2, Len(v)) = Read(v, (at + 2) + Len(v))
    BY <1>1, <2>1, FixedRead
  <2> QED
    BY <2>1, <2>2
<1>3. CASE U8(b, at) = 1
  BY <1>1, <1>2, <1>3 DEF Gateway
<1>4. CASE U8(b, at) = 2
  BY <1>1, <1>2, <1>4 DEF Gateway
<1>5. CASE U8(b, at) = 3
  <2>1. NameAt(b, at + 2, v, next)
    BY <1>5 DEF GatewayAt
  <2>2. ReadName(b, at + 2) = Read(v, next)
    BY <2>1, NameRead
  <2> QED
    BY <1>1, <1>5, <2>2 DEF Gateway
<1>6. CASE U8(b, at) \notin {1, 2, 3}
  <2>1. v = <<>> /\ next = at + 2
    BY <1>6 DEF GatewayAt
  <2> QED
    BY <1>1, <1>6, <2>1 DEF Gateway
<1> QED
  BY <1>3, <1>4, <1>5, <1>6

(* Which field lies how.                                                   *)
LEMMA FieldAtCases ==
  ASSUME NEW b, NEW at, NEW begin, NEW end, NEW v, NEW next
  PROVE  /\ \A f \in DOMAIN Width : FieldAt(f, b, at, begin, end, v, next) =>
              v \in Seq(Octets) /\ Len(v) = Width[f] /\ BytesAt(b, at, v) /\ next = at + Len(v)
         /\ FieldAt("name", b, at, begin, end, v, next) => NameAt(b, at, v, next)
         /\ FieldAt("text", b, at, begin, end, v, next) => TextAt(b, at, v, end) /\ next = end
         /\ FieldAt("counted", b, at, begin, end, v, next) =>
              v \in Seq(Octets) /\ CountedAt(b, at, v) /\ next = at + 1 + Len(v)
         /\ FieldAt("rest", b, at, begin, end, v, next) =>
              v \in Seq(Octets) /\ BytesAt(b, at, v) /\ at + Len(v) = end /\ next = end
         /\ FieldAt("tag", b, at, begin, end, v, next) => TagTextAt(b, at, v, next)
         /\ FieldAt("value", b, at, begin, end, v, next) => ValueAt(b, at, v, end) /\ next = end
         /\ FieldAt("size", b, at, begin, end, v, next) => SizeAt(b, at, v) /\ next = at + 1
         /\ FieldAt("keyTag", b, at, begin, end, v, next) => TagAt(b, begin, v, end) /\ next = end
         /\ FieldAt("types", b, at, begin, end, v, next) => TypesAt(b, at, v, end) /\ next = end
         /\ FieldAt("gateway", b, at, begin, end, v, next) => GatewayAt(b, at, v, next)
BY WidthIs DEF FieldAt

(* An opaque field that lies before the cut is read whole.                 *)
LEMMA OpaqueRead ==
  ASSUME NEW b, NEW w, IsCut(b, w), NEW f, Opaque(f),
         NEW at \in Nat, NEW begin \in Nat, NEW end \in Nat, end <= Len(b),
         NEW v, NEW next, next <= end, FieldAt(f, w, at, begin, end, v, next)
  PROVE  Field(f, b, at, begin, end) = Read(v, next)
<1>0. IsBytes(b) /\ Len(b) \in Nat
  BY BytesAre DEF IsCut
<1>1. CASE f = "text"
  <2>1. TextAt(w, at, v, end) /\ next = end
    BY <1>1, FieldAtCases
  <2>2. Text(b, at, end) = Read(v, end)
    BY <2>1, TextRead
  <2> QED
    BY <1>1, <2>1, <2>2, FieldCases
<1>2. CASE f = "counted"
  <2>1. v \in Seq(Octets) /\ CountedAt(w, at, v) /\ next = at + 1 + Len(v)
    BY <1>2, FieldAtCases
  <2>2. v \in Seq(Nat) /\ Len(v) \in Nat
    BY <2>1, BytesAre DEF IsBytes
  <2>3. at + 1 + Len(v) <= Len(b)
    BY <1>0, <2>1, <2>2
  <2>4. Counted8(b, at) = Read(v, at + 1 + Len(v))
    BY <1>0, <2>1, <2>2, <2>3, CountedLeft, CountedRead
  <2> QED
    BY <1>2, <2>1, <2>4, FieldCases
<1>3. CASE f = "rest"
  <2>1. v \in Seq(Octets) /\ BytesAt(w, at, v) /\ at + Len(v) = end /\ next = end
    BY <1>3, FieldAtCases
  <2>2. BytesAt(b, at, v)
    BY <2>1, BytesLeft
  <2>3. Slice(b, at, end) = v
    BY <1>0, <2>1, <2>2, FixedRead
  <2> QED
    BY <1>3, <2>1, <2>3, FieldCases
<1>4. CASE f = "tag"
  <2>0. TagTextAt(w, at, v, next)
    BY <1>4, FieldAtCases
  <2>1. PICK c \in Seq(Octets) : CountedAt(w, at, c) /\ next = at + 1 + Len(c) /\ v = Decoded(c)
    BY <2>0 DEF TagTextAt
  <2>2. c \in Seq(Nat) /\ Len(c) \in Nat
    BY BytesAre DEF IsBytes
  <2>3. at + 1 + Len(c) <= Len(b)
    BY <1>0, <2>1, <2>2
  <2>4. Counted8(b, at) = Read(c, at + 1 + Len(c))
    BY <1>0, <2>1, <2>2, <2>3, CountedLeft, CountedRead
  <2> QED
    <3>1. AsText(Read(c, next)) = Read(Decoded(c), next)
      BY AsTextIs
    <3>2. Field(f, b, at, begin, end) = AsText(Counted8(b, at))
      BY <1>4, FieldCases
    <3> QED
      BY <2>1, <2>4, <3>1, <3>2
<1>5. CASE f = "value"
  <2>0. ValueAt(w, at, v, end) /\ next = end
    BY <1>5, FieldAtCases
  <2>1. PICK c \in Seq(Octets) : BytesAt(w, at, c) /\ at + Len(c) = end /\ v = Decoded(c)
    BY <2>0 DEF ValueAt
  <2>2. Len(c) \in Nat
    OBVIOUS
  <2>3. BytesAt(b, at, c)
    BY <2>1, <2>2, BytesLeft
  <2>4. Slice(b, at, end) = c
    BY <1>0, <2>1, <2>3, FixedRead
  <2> QED
    <3>1. AsText(Read(c, end)) = Read(Decoded(c), end)
      BY AsTextIs
    <3>2. Field(f, b, at, begin, end) = AsText(Read(Slice(b, at, end), end))
      BY <1>5, FieldCases
    <3> QED
      BY <2>0, <2>1, <2>4, <3>1, <3>2
<1> QED
  BY <1>1, <1>2, <1>3, <1>4, <1>5 DEF Opaque

(* A field is read as what it is.                                          *)
LEMMA FieldRead ==
  ASSUME NEW b, IsBytes(b), NEW f \in FieldKinds,
         NEW at \in Nat, NEW begin \in Nat, NEW end \in Nat, begin <= end, end <= Len(b),
         NEW v, NEW next, next <= end, FieldAt(f, b, at, begin, end, v, next)
  PROVE  Field(f, b, at, begin, end) = Read(v, next)
<1>1. CASE f \in DOMAIN Width
  <2>1. v \in Seq(Octets) /\ Len(v) = Width[f] /\ BytesAt(b, at, v) /\ next = at + Len(v)
    BY <1>1, WidthIs, FieldAtCases
  <2>2. Fixed(b, at, Len(v)) = Read(v, at + Len(v))
    BY <2>1, FixedRead
  <2> QED
    BY <1>1, <2>1, <2>2, WidthIs, FieldCases
<1>2. CASE f = "name"
  <2>1. NameAt(b, at, v, next)
    BY <1>2, FieldAtCases
  <2>2. ReadName(b, at) = Read(v, next)
    BY <2>1, NameRead
  <2> QED
    BY <1>2, <2>2, FieldCases
<1>3. CASE Opaque(f)
  <2>1. IsCut(b, b)
    BY CutOfItself
  <2> QED
    BY <1>3, <2>1, OpaqueRead
<1>4. CASE f = "keyTag"
  <2>1. TagAt(b, begin, v, end) /\ next = end
    BY <1>4, FieldAtCases
  <2>2. KeyTag(b, begin, end) = Read(v, end)
    BY <2>1, TagRead
  <2> QED
    BY <1>4, <2>1, <2>2, FieldCases
<1>5. CASE f = "types"
  <2>1. TypesAt(b, at, v, end) /\ next = end
    BY <1>5, FieldAtCases
  <2>2. Types(b, at, end) = Read(v, end)
    BY <2>1, TypesRead
  <2> QED
    BY <1>5, <2>1, <2>2, FieldCases
<1>6. CASE f = "gateway"
  <2>1. GatewayAt(b, at, v, next)
    BY <1>6, FieldAtCases
  <2>2. Gateway(b, at) = Read(v, next)
    BY <2>1, GatewayRead
  <2> QED
    BY <1>6, <2>2, FieldCases
<1>7. CASE f = "size"
  <2>0. SizeAt(b, at, v) /\ next = at + 1
    BY <1>7, FieldAtCases
  <2>1. PICK m \in 0..15, e \in 0..15 : BytesAt(b, at, <<16 * m + e>>) /\ v = Centimetres(m, e)
    BY <2>0 DEF SizeAt
  <2> DEFINE c == 16 * m + e
  <2>2. c \in Nat /\ c \div 16 = m /\ c % 16 = e
    OBVIOUS
  <2> HIDE DEF c
  <2>3. at + 1 <= Len(b) /\ b[at + 1] = c
    <3>1. Len(<<c>>) = 1 /\ <<c>>[1] = c /\ 1 \in 1..1
      OBVIOUS
    <3> QED
      BY <2>1, <3>1 DEF BytesAt, c
  <2>4. LocSize(b, at) = Read(v, next)
    BY <2>0, <2>1, <2>2, <2>3 DEF LocSize, Has, U8
  <2> QED
    BY <1>7, <2>4, FieldCases
<1> QED
  BY <1>1, <1>2, <1>3, <1>4, <1>5, <1>6, <1>7, WidthIs DEF FieldKinds, Opaque

(* A field that is read of the cut lay before it, or what it lost is made  *)
(* out by its end.                                                         *)
LEMMA FieldWhole ==
  ASSUME NEW b, NEW w, IsCut(b, w), NEW f \in FieldKinds,
         NEW at \in Nat, NEW begin \in Nat, NEW end \in Nat, begin <= end, end <= Len(b),
         NEW v, NEW next \in Nat, next <= end, FieldAt(f, w, at, begin, end, v, next),
         Field(f, b, at, begin, end).ok
  PROVE  Field(f, b, at, begin, end) = Read(v, next)
<1> DEFINE r == Field(f, b, at, begin, end)
<1>1. IsBytes(b) /\ IsBytes(w) /\ end <= Len(w)
  BY BytesAre DEF IsCut
<1>2. CASE Opaque(f)
  BY <1>2, OpaqueRead
<1>3. CASE ~ Opaque(f)
  <2>1. Field(f, w, at, begin, end) = Read(v, next)
    BY <1>1, FieldRead
  <2>2. Field(f, w, at, begin, end).value = v /\ Field(f, w, at, begin, end).next = next
    BY <2>1 DEF Read
  <2>3. r.next = next /\ r.value = v
    BY <1>3, <2>2, FieldAlike DEF Kept, Short, Opaque
  <2>4. IsRead(r) /\ r.ok \in BOOLEAN /\ r.ok
    BY <1>1, FieldIs
  <2> HIDE DEF r
  <2>5. r = [ok |-> TRUE, value |-> v, next |-> next]
    BY <2>3, <2>4 DEF IsRead
  <2> QED
    BY <2>5 DEF Read, r
<1> QED
  BY <1>2, <1>3

(* Fields that are read one after the other are the data of a record.      *)
LEMMA RdataFollows ==
  ASSUME NEW b, IsBytes(b), NEW type, NEW begin \in Nat, NEW end \in Nat, begin <= end,
         NEW data \in Seq(FieldValues), Len(data) = Len(Layout(type)),
         NEW q \in [0..Len(data) -> Nat], q[0] = begin,
         \A k \in 1..Len(data) :
           Field(Layout(type)[k], b, q[k - 1], begin, end) = Read(data[k], q[k])
  PROVE  DecodeRdata(b, type, begin, end) = Read(data, q[Len(data)])
<1> DEFINE fields == Layout(type)
           N == Len(data)
<1>0. N \in Nat /\ N = Len(fields) /\ \A k \in 1..N : fields[k] \in FieldKinds
  BY LayoutsAre
<1>1. PICK h : IsRdataScan(b, type, begin, end, h) /\ DecodeRdata(b, type, begin, end) = h[Len(Layout(type))]
  BY RdataIs
<1>2. /\ \A k \in 0..N : h[k] \in RdataReads
      /\ h[0] = Read(<<>>, begin)
      /\ \A k \in 1..N : h[k] = FieldThen(b, fields[k], begin, end, h[k - 1])
  BY <1>0, <1>1 DEF IsRdataScan
<1>3. \A k \in 1..N : Field(fields[k], b, q[k - 1], begin, end) = Read(data[k], q[k])
  OBVIOUS
<1>4. \A k \in 1..N : data[k] \in FieldValues
  OBVIOUS
<1> HIDE DEF fields, N
<1> DEFINE Good == {k \in Nat : /\ h[k].ok /\ h[k].next = q[k] /\ Len(h[k].value) = k
                                /\ \A j \in 1..k : h[k].value[j] = data[j]}
<1>5. 0 \in Good
  BY <1>2 DEF Read
<1>6. ASSUME NEW k \in 1..N, k - 1 \in Good PROVE k \in Good
  <2> DEFINE r == h[k - 1]
             u == r.value
             v == data[k]
  <2>1. r.ok /\ r.next = q[k - 1] /\ Len(u) = k - 1 /\ \A j \in 1..(k - 1) : u[j] = data[j]
    BY <1>6
  <2>2. k \in Nat /\ k - 1 \in 0..N
    BY <1>0
  <2>3. r \in RdataReads /\ u \in Seq(FieldValues) /\ v \in FieldValues
    <3>1. r \in RdataReads
      BY <1>2, <2>2
    <3> QED
      BY <1>4, <3>1 DEF RdataReads
  <2>4. h[k] = FieldThen(b, fields[k], begin, end, r) /\ Field(fields[k], b, r.next, begin, end) = Read(v, q[k])
    BY <1>2, <1>3, <2>1
  <2> HIDE DEF r, u, v
  <2>5. h[k] = Read(Append(u, v), q[k])
    <3> DEFINE x == Field(fields[k], b, r.next, begin, end)
               t == FieldThen(b, fields[k], begin, end, r)
    <3>1. x.ok /\ x = [ok |-> TRUE, value |-> v, next |-> q[k]]
      BY <2>4 DEF Read
    <3>2. t = [x EXCEPT !.value = Append(r.value, @)]
      BY <2>1, <3>1 DEF FieldThen
    <3> HIDE DEF x, t
    <3>3. t.ok
      BY <3>1, <3>2
    <3>4. fields[k] \in FieldKinds
      BY <1>0
    <3>5. t = Read(Append(r.value, x.value), x.next)
      BY <2>3, <3>3, <3>4, FieldThenIs, ZenonT(60) DEF x, t
    <3>6. x.value = v /\ x.next = q[k]
      BY <3>1
    <3> QED
      BY <2>4, <3>5, <3>6 DEF t, u
  <2> DEFINE c == Append(u, v)
  <2>6. Len(c) = k /\ c[k] = v /\ \A j \in 1..(k - 1) : c[j] = u[j]
    BY <2>1, <2>2, <2>3
  <2> HIDE DEF c
  <2>7. ASSUME NEW j \in 1..k PROVE c[j] = data[j]
    <3>1. CASE j = k
      BY <2>6, <3>1 DEF v
    <3>2. CASE j # k
      <4>1. j \in 1..(k - 1)
        BY <2>2, <3>2
      <4> QED
        BY <2>1, <2>6, <4>1
    <3> QED
      BY <3>1, <3>2
  <2>8. h[k].ok /\ h[k].next = q[k] /\ h[k].value = c
    BY <2>5 DEF Read, c
  <2> QED
    BY <2>2, <2>6, <2>7, <2>8
<1>7. N \in Good
  <2> HIDE DEF Good
  <2>1. \A k \in 0..N : k \in Good
    BY <1>0, <1>5, <1>6, Upward
  <2> QED
    BY <1>0, <2>1
<1> DEFINE r == h[N]
<1>8. r.ok /\ r.next = q[N] /\ Len(r.value) = N /\ \A j \in 1..N : r.value[j] = data[j]
  BY <1>7
<1> HIDE DEF Good
<1>9. /\ r = [ok |-> r.ok, value |-> r.value, next |-> r.next]
      /\ r.value \in Seq(FieldValues) /\ r.ok \in BOOLEAN
  <2>1. N \in 0..N
    BY <1>0
  <2>2. r \in RdataReads
    BY <1>2, <2>1
  <2> QED
    BY <2>2 DEF RdataReads
<1>10. DecodeRdata(b, type, begin, end) = r
  BY <1>0, <1>1 DEF fields
<1> HIDE DEF r
<1>11. r.value = data
  <2>1. \A i \in Nat : 1 <= i /\ i <= Len(data) => r.value[i] = data[i]
    BY <1>0, <1>8 DEF N
  <2>2. Len(r.value) = Len(data)
    BY <1>8 DEF N
  <2> QED
    BY <1>9, <2>1, <2>2, SameSequence
<1>12. r = [ok |-> TRUE, value |-> data, next |-> q[N]]
  BY <1>8, <1>9, <1>11
<1> QED
  BY <1>10, <1>12 DEF Read, N

(* What is read of the data of a record, field after field.                *)
LEMMA RdataSteps ==
  ASSUME NEW b, IsBytes(b), NEW type, NEW begin \in Nat, NEW end \in Nat, begin <= end,
         DecodeRdata(b, type, begin, end).ok
  PROVE  \E at \in [0..Len(Layout(type)) -> Nat] :
           /\ at[0] = begin
           /\ \A k \in 1..Len(Layout(type)) :
                /\ Field(Layout(type)[k], b, at[k - 1], begin, end).ok
                /\ at[k] = Field(Layout(type)[k], b, at[k - 1], begin, end).next
<1> DEFINE fields == Layout(type)
           N == Len(fields)
<1>0. N \in Nat /\ fields \in Seq(FieldKinds) /\ \A k \in 1..N : fields[k] \in FieldKinds
  BY LayoutsAre
<1>1. PICK h : IsRdataScan(b, type, begin, end, h) /\ DecodeRdata(b, type, begin, end) = h[N]
  BY RdataIs
<1>2. /\ \A k \in 0..N : h[k] \in RdataReads
      /\ h[0] = Read(<<>>, begin)
      /\ \A k \in 1..N : h[k] = FieldThen(b, fields[k], begin, end, h[k - 1])
  BY <1>1 DEF IsRdataScan
<1>3. h[N].ok
  BY <1>1
<1> HIDE DEF fields, N
<1>4. ASSUME NEW k \in 1..N, h[k].ok
      PROVE  /\ h[k - 1].ok /\ Field(fields[k], b, h[k - 1].next, begin, end).ok
             /\ h[k].next = Field(fields[k], b, h[k - 1].next, begin, end).next
  <2>1. k - 1 \in 0..N /\ fields[k] \in FieldKinds
    BY <1>0
  <2>2. h[k - 1] \in RdataReads /\ h[k] = FieldThen(b, fields[k], begin, end, h[k - 1])
    BY <1>2, <2>1
  <2> DEFINE r == h[k - 1]
             f == fields[k]
             x == Field(f, b, r.next, begin, end)
  <2>3. r \in RdataReads /\ f \in FieldKinds /\ h[k] = FieldThen(b, f, begin, end, r)
    BY <2>1, <2>2
  <2> HIDE DEF r, f
  <2>4. FieldThen(b, f, begin, end, r).ok
    BY <1>4, <2>3
  <2>5. /\ r.ok /\ x.ok
        /\ FieldThen(b, f, begin, end, r) = Read(Append(r.value, x.value), x.next)
    BY <2>3, <2>4, FieldThenIs
  <2> HIDE DEF x
  <2>6. h[k].next = x.next
    BY <2>3, <2>5 DEF Read
  <2> QED
    BY <2>5, <2>6 DEF x, r, f
<1> DEFINE Good == {j \in Nat : h[N - j].ok}
<1>5. 0 \in Good
  BY <1>0, <1>3
<1>6. ASSUME NEW j \in 1..N, j - 1 \in Good PROVE j \in Good
  <2>1. N - (j - 1) \in 1..N /\ (N - (j - 1)) - 1 = N - j /\ j \in Nat
    BY <1>0
  <2>2. h[N - (j - 1)].ok
    BY <1>6
  <2> QED
    BY <1>4, <2>1, <2>2
<1>7. \A k \in 0..N : h[k].ok
  <2> HIDE DEF Good
  <2>1. \A j \in 0..N : j \in Good
    BY <1>0, <1>5, <1>6, Upward
  <2> SUFFICES ASSUME NEW k \in 0..N PROVE h[k].ok
    OBVIOUS
  <2>2. N - k \in 0..N /\ N - (N - k) = k
    BY <1>0
  <2> QED
    BY <2>1, <2>2 DEF Good
<1> HIDE DEF Good
<1> DEFINE at == [k \in 0..N |-> h[k].next]
<1>8. at \in [0..N -> Nat] /\ \A k \in 0..N : at[k] = h[k].next
  BY <1>2 DEF RdataReads
<1>9. at[0] = begin
  <2>1. 0 \in 0..N
    BY <1>0
  <2> QED
    BY <1>2, <1>8, <2>1 DEF Read
<1> HIDE DEF at
<1>10. ASSUME NEW k \in 1..N
       PROVE  /\ Field(fields[k], b, at[k - 1], begin, end).ok
              /\ at[k] = Field(fields[k], b, at[k - 1], begin, end).next
  <2>1. k \in 0..N /\ k - 1 \in 0..N
    BY <1>0
  <2> QED
    BY <1>4, <1>7, <1>8, <2>1
<1> QED
  BY <1>8, <1>9, <1>10 DEF fields, N

(* The data of a record that lies before the cut.                          *)
LEMMA RdataWhole ==
  ASSUME NEW b, NEW w, IsCut(b, w), NEW type,
         NEW begin \in Nat, NEW end \in Nat, begin <= end, end <= Len(b),
         NEW data \in Seq(FieldValues), DataAt(w, type, begin, end, data),
         DecodeRdata(b, type, begin, end).ok
  PROVE  \E to : DecodeRdata(b, type, begin, end) = Read(data, to)
<1> DEFINE N == Len(data)
           fields == Layout(type)
<1>0. N \in Nat /\ Len(fields) = N /\ IsBytes(b)
  BY DEF DataAt, IsCut
<1>1. PICK q \in [0..N -> Nat] :
        /\ q[0] = begin
        /\ \A k \in 1..N : /\ FieldAt(fields[k], w, q[k - 1], begin, end, data[k], q[k])
                           /\ q[k] <= end
  BY DEF DataAt
<1>2. PICK at \in [0..N -> Nat] :
        /\ at[0] = begin
        /\ \A k \in 1..N : /\ Field(fields[k], b, at[k - 1], begin, end).ok
                           /\ at[k] = Field(fields[k], b, at[k - 1], begin, end).next
  BY <1>0, RdataSteps, SMTT(60)
<1>3. \A k \in 1..N : fields[k] \in FieldKinds
  BY <1>0, LayoutsAre
<1> HIDE DEF N, fields
<1>4. ASSUME NEW k \in 1..N, at[k - 1] = q[k - 1]
      PROVE  Field(fields[k], b, q[k - 1], begin, end) = Read(data[k], q[k]) /\ at[k] = q[k]
  <2>1. q[k - 1] \in Nat /\ q[k] \in Nat
    BY <1>0, <1>1
  <2>2. Field(fields[k], b, q[k - 1], begin, end) = Read(data[k], q[k])
    BY <1>1, <1>2, <1>3, <1>4, <2>1, FieldWhole
  <2>3. at[k] = Field(fields[k], b, q[k - 1], begin, end).next
    BY <1>2, <1>4
  <2> QED
    BY <2>2, <2>3 DEF Read
<1> DEFINE Good == {k \in Nat : at[k] = q[k]}
<1>5. 0 \in Good
  BY <1>1, <1>2
<1>6. ASSUME NEW k \in 1..N, k - 1 \in Good PROVE k \in Good
  <2>1. at[k - 1] = q[k - 1] /\ k \in Nat
    BY <1>6
  <2> QED
    BY <1>4, <2>1
<1>7. \A k \in 0..N : k \in Good
  <2> HIDE DEF Good
  <2> QED
    BY <1>0, <1>5, <1>6, Upward
<1>8. ASSUME NEW k \in 1..N PROVE Field(fields[k], b, q[k - 1], begin, end) = Read(data[k], q[k])
  <2>1. k - 1 \in 0..N
    BY <1>0
  <2>2. at[k - 1] = q[k - 1]
    BY <1>7, <2>1
  <2> QED
    BY <1>4, <2>2
<1>9. DecodeRdata(b, type, begin, end) = Read(data, q[Len(data)])
  BY <1>0, <1>1, <1>8, RdataFollows DEF N, fields
<1> QED
  BY <1>9

-----------------------------------------------------------------------------
(* Records *)

(* What a record is read as.                                               *)
LEMMA RecordIs ==
  ASSUME NEW b, NEW at, NEW rec \in Records, NEW p, NEW next, NEW to,
         ReadName(b, at) = Read(rec.name, p), Has(b, p, 10), U16(b, p) = rec.type,
         Slice(b, p + 4, p + 8) = rec.ttl, next = p + 10 + U16(b, p + 8),
         DecodeRdata(b, rec.type, p + 10, next) = Read(rec.data, to)
  PROVE  Record(b, at) = Read(rec, next)
<1>1. ReadName(b, at).ok /\ ReadName(b, at).value = rec.name /\ ReadName(b, at).next = p
  BY DEF Read
<1>2. /\ DecodeRdata(b, rec.type, p + 10, next).ok
      /\ DecodeRdata(b, rec.type, p + 10, next).value = rec.data
  BY DEF Read
<1>3. rec = [name |-> rec.name, type |-> rec.type, ttl |-> rec.ttl, data |-> rec.data]
  BY DEF Records
<1>4. Record(b, at) = Read([name |-> rec.name, type |-> rec.type, ttl |-> rec.ttl, data |-> rec.data], next)
  BY <1>1, <1>2 DEF Record
<1> QED
  BY <1>3, <1>4

(* A record that is read is read of its name, its header and its data.     *)
LEMMA RecordOk ==
  ASSUME NEW b, NEW at, Record(b, at).ok
  PROVE  LET p == ReadName(b, at).next
         IN  /\ ReadName(b, at).ok /\ Has(b, p, 10)
             /\ DecodeRdata(b, U16(b, p), p + 10, p + 10 + U16(b, p + 8)).ok
             /\ Record(b, at) = Read(Record(b, at).value, Record(b, at).next)
BY DEF Record, Throws, Read

(* A record that lies before the cut is read as what it is, of the cut and *)
(* of the whole.                                                           *)
LEMMA RecordWhole ==
  ASSUME NEW b, NEW w, IsCut(b, w), NEW at \in Nat, NEW rec \in Records, NEW next,
         RecordAt(w, at, rec, next), next <= Len(b), Record(b, at).ok
  PROVE  Record(b, at) = Read(rec, next)
<1>0. IsBytes(b) /\ IsBytes(w) /\ Len(b) \in Nat /\ Len(w) \in Nat
  BY BytesAre DEF IsCut
<1>1. PICK p \in Nat :
        /\ NameAt(w, at, rec.name, p)
        /\ p + 10 <= Len(w) /\ next <= Len(w)
        /\ U16(w, p) = rec.type
        /\ Len(rec.ttl) = 4 /\ BytesAt(w, p + 4, rec.ttl)
        /\ next = p + 10 + U16(w, p + 8)
        /\ DataAt(w, rec.type, p + 10, next, rec.data)
  BY DEF RecordAt
<1>2. rec.ttl \in Seq(Octets) /\ rec.data \in Seq(FieldValues)
  BY DEF Records
<1>3. /\ ReadName(b, at).ok /\ Has(b, ReadName(b, at).next, 10)
      /\ DecodeRdata(b, U16(b, ReadName(b, at).next), ReadName(b, at).next + 10,
                     ReadName(b, at).next + 10 + U16(b, ReadName(b, at).next + 8)).ok
  BY RecordOk
<1>4. ReadName(b, at) = Read(rec.name, p)
  BY <1>0, <1>1, <1>3, NameRead, NameAlike
<1>5. ReadName(b, at).next = p
  BY <1>4 DEF Read
<1>6. Has(b, p, 10) /\ U16(b, p) = rec.type /\ U16(b, p + 8) = U16(w, p + 8) /\ U16(b, p + 8) \in Nat
  <2>1. Has(b, p, 10) /\ Has(b, p, 2) /\ Has(b, p + 8, 2) /\ p + 8 \in Nat /\ 2 \in Nat /\ 2 >= 2
    BY <1>0, <1>3, <1>5 DEF Has
  <2> QED
    BY <1>1, <2>1, BytesAlike
<1>7. Slice(b, p + 4, p + 8) = rec.ttl
  <2>1. p + 4 \in Nat /\ Len(rec.ttl) \in Nat /\ (p + 4) + Len(rec.ttl) = p + 8 /\ p + 8 <= Len(b)
    BY <1>0, <1>1, <1>6 DEF Has
  <2>2. BytesAt(b, p + 4, rec.ttl)
    BY <1>1, <2>1, BytesLeft
  <2>3. Slice(b, p + 4, (p + 4) + Len(rec.ttl)) = rec.ttl
    BY <1>0, <1>2, <2>1, <2>2, FixedRead
  <2> QED
    BY <2>1, <2>3
<1>8. next = p + 10 + U16(b, p + 8) /\ p + 10 \in Nat /\ next \in Nat /\ p + 10 <= next
  BY <1>1, <1>6
<1>9. DecodeRdata(b, rec.type, p + 10, next).ok
  BY <1>3, <1>5, <1>6, <1>8
<1>10. PICK to : DecodeRdata(b, rec.type, p + 10, next) = Read(rec.data, to)
  BY <1>1, <1>2, <1>8, <1>9, RdataWhole
<1> QED
  BY <1>4, <1>6, <1>7, <1>8, <1>10, RecordIs

LEMMA RecordRead ==
  ASSUME NEW b, IsBytes(b), NEW at \in Nat, NEW rec \in Records, NEW next, RecordAt(b, at, rec, next)
  PROVE  Record(b, at) = Read(rec, next)
<1>0. Len(b) \in Nat /\ IsCut(b, b)
  BY BytesAre, CutOfItself
<1>1. PICK p \in Nat :
        /\ NameAt(b, at, rec.name, p)
        /\ p + 10 <= Len(b) /\ next <= Len(b)
        /\ U16(b, p) = rec.type
        /\ Len(rec.ttl) = 4 /\ BytesAt(b, p + 4, rec.ttl)
        /\ next = p + 10 + U16(b, p + 8)
        /\ DataAt(b, rec.type, p + 10, next, rec.data)
  BY DEF RecordAt
<1>2. rec.ttl \in Seq(Octets) /\ rec.data \in Seq(FieldValues)
  BY DEF Records
<1>3. ReadName(b, at) = Read(rec.name, p)
  BY <1>1, NameRead
<1>4. Has(b, p, 10) /\ U16(b, p + 8) \in Nat
  <2>1. Has(b, p, 10) /\ Has(b, p + 8, 2) /\ p + 8 \in Nat /\ 2 \in Nat /\ 2 >= 2
    BY <1>0, <1>1 DEF Has
  <2> QED
    BY <1>0, <2>1, BytesAlike
<1>5. Slice(b, p + 4, p + 8) = rec.ttl
  <2>1. p + 4 \in Nat /\ (p + 4) + Len(rec.ttl) = p + 8
    BY <1>1
  <2>2. Slice(b, p + 4, (p + 4) + Len(rec.ttl)) = rec.ttl
    BY <1>1, <1>2, <2>1, FixedRead
  <2> QED
    BY <2>1, <2>2
<1> DEFINE begin == p + 10
           data == rec.data
           type == rec.type
           N == Len(data)
<1>6. begin \in Nat /\ next \in Nat /\ begin <= next /\ next <= Len(b) /\ data \in Seq(FieldValues) /\ N \in Nat
  BY <1>1, <1>2, <1>4
<1>7. DataAt(b, type, begin, next, data)
  BY <1>1
<1> HIDE DEF begin, data, type
<1>8. PICK q \in [0..N -> Nat] :
        /\ q[0] = begin
        /\ \A k \in 1..N : /\ FieldAt(Layout(type)[k], b, q[k - 1], begin, next, data[k], q[k])
                           /\ q[k] <= next
  BY <1>7 DEF DataAt
<1>9. N = Len(Layout(type)) /\ \A k \in 1..N : Layout(type)[k] \in FieldKinds
  BY <1>7, LayoutsAre DEF DataAt
<1>10. ASSUME NEW k \in 1..N
       PROVE  Field(Layout(type)[k], b, q[k - 1], begin, next) = Read(data[k], q[k])
  <2>0. k \in 0..N /\ k - 1 \in 0..N
    BY <1>6
  <2>1. q[k - 1] \in Nat /\ q[k] \in Nat
    BY <1>8, <2>0
  <2>2. /\ FieldAt(Layout(type)[k], b, q[k - 1], begin, next, data[k], q[k])
        /\ q[k] <= next /\ Layout(type)[k] \in FieldKinds
    BY <1>8, <1>9
  <2> QED
    BY <1>6, <2>1, <2>2, FieldRead
<1>11. DecodeRdata(b, type, begin, next) = Read(data, q[N])
  BY <1>6, <1>8, <1>9, <1>10, RdataFollows
<1>12. DecodeRdata(b, rec.type, p + 10, next) = Read(rec.data, q[N])
  BY <1>11 DEF begin, data, type
<1> QED
  BY <1>1, <1>3, <1>4, <1>5, <1>12, RecordIs, SMTT(60)

-----------------------------------------------------------------------------
(* A question, and a record, of a message.                                 *)
LEMMA QuestionRead ==
  ASSUME NEW w, NEW recs, NEW p, NEW r, IsLaidOut(w, recs, p, r), NEW i \in 1..U16(w, 4), U16(w, 4) \in Nat
  PROVE  /\ p[i - 1] \in Nat /\ ReadName(w, p[i - 1]).ok
         /\ p[i] = ReadName(w, p[i - 1]).next + 4
<1>1. PICK name : \E next \in Nat : NameAt(w, p[i - 1], name, next) /\ p[i] = next + 4
  BY DEF IsLaidOut
<1>2. PICK next \in Nat : NameAt(w, p[i - 1], name, next) /\ p[i] = next + 4
  BY <1>1
<1>3. IsBytes(w)
  BY DEF IsLaidOut, IsBytes
<1>4. ReadName(w, p[i - 1]) = Read(name, next) /\ p[i - 1] \in Nat
  BY <1>2, <1>3, NameRead
<1> QED
  BY <1>2, <1>4 DEF Read

LEMMA NextRecordRead ==
  ASSUME NEW w, NEW recs, NEW p, NEW r, IsLaidOut(w, recs, p, r), NEW i \in 1..Len(recs)
  PROVE  /\ r[i - 1] \in Nat /\ r[i] \in Nat /\ recs[i] \in Records
         /\ RecordAt(w, r[i - 1], recs[i], r[i])
         /\ Record(w, r[i - 1]) = Read(recs[i], r[i])
<1>1. recs \in Seq(Records) /\ r \in [0..Len(recs) -> Nat] /\ RecordAt(w, r[i - 1], recs[i], r[i]) /\ IsBytes(w)
  BY DEF IsLaidOut, IsBytes
<1>2. r[i - 1] \in Nat /\ r[i] \in Nat /\ recs[i] \in Records
  BY <1>1
<1> QED
  BY <1>1, <1>2, RecordRead

-----------------------------------------------------------------------------
(* A call that decodes a message, whole or cut off, that is laid out so    *)
(* goes along its questions and its records, and throws only if it is cut. *)
ReadAlong(w, recs, p, r) ==
  /\ stage = "questions" => left \in 0..U16(w, 4) /\ offset = p[U16(w, 4) - left]
  /\ stage \in {"answers", "fulfilled"} =>
       /\ Len(recs) = Len(answers) + left
       /\ offset = r[Len(answers)]
       /\ \A i \in 1..Len(answers) : Record(message.bytes, r[i - 1]) = Read(answers[i], r[i])
  /\ stage = "thrown" => message.bytes # w
AlongInv ==
  /\ CutInv
  /\ stage \in {"idle", "questions", "answers", "fulfilled", "thrown"}
  /\ message.sort # "query" =>
       \A w, recs, p, r :
         IsCut(message.bytes, w) /\ IsLaidOut(w, recs, p, r) => ReadAlong(w, recs, p, r)

LEMMA AlongInvStep == AlongInv /\ [PureNext]_pureVars => AlongInv'
<1> SUFFICES ASSUME AlongInv, [PureNext]_pureVars PROVE AlongInv'
  OBVIOUS
<1>0. CutInv /\ CutInv'
  BY CutInvStep DEF AlongInv
<1>t. stage' \in {"idle", "questions", "answers", "fulfilled", "thrown"}
  BY DEF AlongInv, PureNext, pureVars, wireVars, WireNext, ReadHeader, Encode, SkipQuestion,
         QuestionsDone, DecodeAnswer, ReturnMessage, ThrowOut
<1> SUFFICES ASSUME message'.sort # "query",
                    NEW w, NEW recs, NEW p, NEW r,
                    IsCut(message'.bytes, w), IsLaidOut(w, recs, p, r)
             PROVE  ReadAlong(w, recs, p, r)'
  BY <1>0, <1>t DEF AlongInv
<1> DEFINE b == message.bytes
           Q == U16(w, 4)
           K == Len(recs)
<1>1. /\ IsBytes(w) /\ recs \in Seq(Records) /\ K \in Nat /\ Len(w) \in Nat /\ Len(w) >= 12
      /\ p[0] = 12 /\ r[0] = p[Q] /\ U16(w, 6) = K
  BY BytesAre DEF IsLaidOut, IsBytes
<1>2. Q \in Nat
  <2>1. Has(w, 6, 2) /\ IsCut(w, w)
    BY <1>1, CutOfItself DEF Has
  <2> QED
    BY <2>1, CountsAlike
<1> HIDE DEF Q, K
<1>3. ASSUME NEW i \in 1..Q
      PROVE  /\ p[i - 1] \in Nat /\ ReadName(w, p[i - 1]).ok
             /\ p[i] = ReadName(w, p[i - 1]).next + 4
  BY <1>2, QuestionRead DEF Q
<1>4. ASSUME NEW i \in 1..K
      PROVE  /\ r[i - 1] \in Nat /\ r[i] \in Nat /\ recs[i] \in Records
             /\ Record(w, r[i - 1]) = Read(recs[i], r[i])
  BY NextRecordRead DEF K
<1>5. ASSUME message' = message PROVE ReadAlong(w, recs, p, r) /\ IsCut(b, w) /\ message.sort # "query"
  BY <1>5 DEF AlongInv
<1>6. CASE UNCHANGED wireVars
  <2>1. /\ message' = message /\ stage' = stage /\ offset' = offset
        /\ left' = left /\ answers' = answers
    BY <1>6 DEF wireVars
  <2> QED
    BY <1>5, <2>1 DEF ReadAlong
<1>7. ASSUME NEW m \in Inputs, stage = "idle", ReadHeader(m) PROVE ReadAlong(w, recs, p, r)'
  <2>1. message' = m /\ offset' = 12 /\ IsCut(m.bytes, w)
    BY <1>7 DEF ReadHeader
  <2>2. CASE Has(m.bytes, 6, 2)
    <3>1. stage' = "questions" /\ left' = U16(m.bytes, 4)
      BY <1>7, <2>2 DEF ReadHeader
    <3>2. left' = Q
      BY <2>1, <2>2, <3>1, CountsAlike DEF Q
    <3>3. left' \in 0..Q /\ Q - left' = 0
      BY <1>2, <3>2
    <3> QED
      BY <1>1, <2>1, <3>1, <3>3 DEF ReadAlong, Q
  <2>3. CASE ~ Has(m.bytes, 6, 2)
    <3>1. stage' = "thrown"
      BY <1>7, <2>3 DEF ReadHeader
    <3>2. Has(w, 6, 2)
      BY <1>1 DEF Has
    <3>3. m.bytes # w
      BY <2>3, <3>2
    <3> QED
      BY <2>1, <3>1, <3>3 DEF ReadAlong
  <2> QED
    BY <2>2, <2>3
<1>8. ASSUME NEW q \in Queries, Encode(q) PROVE FALSE
  BY <1>8 DEF Encode
<1>9. CASE SkipQuestion
  <2> DEFINE name == ReadName(b, offset)
             k == Q - left
  <2>1. /\ stage = "questions" /\ left > 0 /\ name.ok
        /\ offset' = name.next + 4 /\ left' = left - 1
        /\ message' = message /\ stage' = stage
    BY <1>9 DEF SkipQuestion, Question
  <2>2. left \in 0..Q /\ offset = p[k] /\ IsCut(b, w) /\ message.sort # "query"
    BY <1>5, <2>1 DEF ReadAlong, Q
  <2>3. k + 1 \in 1..Q /\ (k + 1) - 1 = k /\ left' \in 0..Q /\ Q - left' = k + 1
    BY <1>2, <2>1, <2>2
  <2> HIDE DEF k
  <2>4. offset \in Nat /\ p[k + 1] = ReadName(w, offset).next + 4
    BY <1>3, <2>2, <2>3
  <2>5. ReadName(w, offset) = name
    BY <2>1, <2>2, <2>4, NameAlike
  <2>6. offset' = p[k + 1]
    BY <2>1, <2>4, <2>5
  <2> QED
    BY <2>1, <2>3, <2>6 DEF ReadAlong, Q
<1>10. CASE QuestionsDone
  <2>1. /\ stage = "questions" /\ left = 0 /\ stage' = "answers" /\ left' = U16(b, 6)
        /\ message' = message /\ offset' = offset /\ answers' = answers
    BY <1>10 DEF QuestionsDone
  <2>2. offset = p[Q - left] /\ IsCut(b, w) /\ message.sort # "query"
    BY <1>5, <2>1 DEF ReadAlong, Q
  <2>3. answers = <<>> /\ Has(b, 6, 2)
    BY <1>0, <2>1, <2>2 DEF CutInv
  <2>4. left' = K
    BY <1>1, <2>1, <2>2, <2>3, CountsAlike
  <2>5. offset = r[0]
    <3>1. Q - left = Q
      BY <1>2, <2>1
    <3> QED
      BY <1>1, <2>2, <3>1
  <2>6. Len(answers') = 0 /\ 1..Len(answers') = {} /\ K = 0 + left'
    BY <1>1, <2>1, <2>3, <2>4
  <2> QED
    BY <2>1, <2>5, <2>6 DEF ReadAlong, K
<1>11. CASE DecodeAnswer
  <2> DEFINE x == Record(b, offset)
             k == Len(answers)
  <2>1. /\ stage = "answers" /\ left > 0 /\ x.ok
        /\ offset' = x.next /\ left' = left - 1 /\ answers' = Append(answers, x.value)
        /\ message' = message /\ stage' = stage
    BY <1>11 DEF DecodeAnswer, Answer
  <2>2. IsCut(b, w) /\ message.sort # "query"
    BY <1>5, <2>1
  <2>3. left \in Nat /\ answers \in Seq(Records) /\ k \in Nat
    BY <1>0, <2>2 DEF CutInv
  <2>4. K = k + left /\ offset = r[k] /\ \A i \in 1..k : Record(b, r[i - 1]) = Read(answers[i], r[i])
    BY <1>5, <2>1 DEF ReadAlong, K
  <2> HIDE DEF k
  <2>5. k + 1 \in 1..K /\ (k + 1) - 1 = k /\ K = (k + 1) + left'
    BY <1>1, <2>1, <2>3, <2>4
  <2>6. offset \in Nat /\ Record(w, offset).next = r[k + 1]
    <3>1. r[k] \in Nat /\ Record(w, r[k]) = Read(recs[k + 1], r[k + 1])
      BY <1>4, <2>5
    <3> QED
      BY <2>4, <3>1 DEF Read
  <2>7. x.next = r[k + 1] /\ x.value \in Records
    BY <2>1, <2>2, <2>6, RecordAlike
  <2>8. x = Read(x.value, x.next)
    BY <2>1, RecordOk
  <2> DEFINE v == x.value
  <2>9. x = Read(v, r[k + 1]) /\ v \in Records /\ offset' = r[k + 1] /\ answers' = Append(answers, v)
    BY <2>1, <2>7, <2>8
  <2>10. Record(b, r[k]) = Read(v, r[k + 1])
    BY <2>4, <2>9
  <2> HIDE DEF x, v
  <2>11. Len(answers') = k + 1 /\ answers'[k + 1] = v /\ \A i \in 1..k : answers'[i] = answers[i]
    BY <2>3, <2>9 DEF k
  <2>12. ASSUME NEW i \in 1..(k + 1) PROVE Record(b, r[i - 1]) = Read(answers'[i], r[i])
    <3>1. CASE i = k + 1
      BY <2>5, <2>10, <2>11, <3>1
    <3>2. CASE i # k + 1
      <4>1. i \in 1..k
        BY <2>3, <3>2
      <4> QED
        BY <2>4, <2>11, <4>1
    <3> QED
      BY <3>1, <3>2
  <2> QED
    BY <2>1, <2>5, <2>9, <2>11, <2>12 DEF ReadAlong, K
<1>12. CASE ReturnMessage
  <2>1. /\ stage = "answers" /\ stage' = "fulfilled"
        /\ message' = message /\ offset' = offset /\ left' = left /\ answers' = answers
    BY <1>12 DEF ReturnMessage
  <2> QED
    BY <1>5, <2>1 DEF ReadAlong
<1>13. CASE ThrowOut
  <2>1. /\ left > 0
        /\ \/ stage = "questions" /\ ~ ReadName(b, offset).ok
           \/ stage = "answers" /\ ~ Record(b, offset).ok
        /\ stage' = "thrown" /\ message' = message
    BY <1>13 DEF ThrowOut, Question, Answer
  <2>2. ReadAlong(w, recs, p, r) /\ message.sort # "query"
    BY <1>5, <2>1
  <2> SUFFICES ASSUME b = w PROVE FALSE
    BY <2>1 DEF ReadAlong
  <2>3. CASE stage = "questions"
    <3> DEFINE k == Q - left
    <3>1. left \in 0..Q /\ offset = p[k]
      BY <2>2, <2>3 DEF ReadAlong, Q
    <3>2. k + 1 \in 1..Q /\ (k + 1) - 1 = k
      BY <1>2, <2>1, <3>1
    <3> HIDE DEF k
    <3>3. ReadName(w, offset).ok
      BY <1>3, <3>1, <3>2
    <3> QED
      BY <2>1, <2>3, <3>3
  <2>4. CASE stage = "answers"
    <3> DEFINE k == Len(answers)
    <3>1. left \in Nat /\ k \in Nat
      BY <1>0, <2>2 DEF CutInv
    <3>2. K = k + left /\ offset = r[k]
      BY <2>2, <2>4 DEF ReadAlong, K
    <3> HIDE DEF k
    <3>3. k + 1 \in 1..K /\ (k + 1) - 1 = k
      BY <1>1, <2>1, <3>1, <3>2
    <3>4. Record(w, offset) = Read(recs[k + 1], r[k + 1])
      BY <1>4, <3>2, <3>3
    <3> QED
      BY <2>1, <2>4, <3>4 DEF Read
  <2> QED
    BY <2>1, <2>3, <2>4
<1> QED
  BY <1>6, <1>7, <1>8, <1>9, <1>10, <1>11, <1>12, <1>13 DEF PureNext, WireNext, pureVars

(* A sequence is the beginning of one that starts with its elements.       *)
LEMMA Beginning ==
  ASSUME NEW S, NEW s \in Seq(S), NEW t \in Seq(S), Len(s) <= Len(t),
         \A i \in 1..Len(s) : s[i] = t[i]
  PROVE  IsPrefix(s, t)
<1> DEFINE k == Len(s)
           u == SubSeq(s, 1, k)
           v == SubSeq(t, 1, k)
<1>1. k \in Nat /\ 1 \in Nat /\ 1 <= k + 1 /\ k <= Len(s) /\ k <= Len(t)
  OBVIOUS
<1>2. /\ u \in Seq(S) /\ Len(u) = k + 1 - 1
      /\ \A i \in Nat : 1 <= i /\ i <= k + 1 - 1 => u[i] = s[1 + i - 1]
  BY <1>1, Part
<1>3. /\ v \in Seq(S) /\ Len(v) = k + 1 - 1
      /\ \A i \in Nat : 1 <= i /\ i <= k + 1 - 1 => v[i] = t[1 + i - 1]
  BY <1>1, Part
<1> HIDE DEF u, v
<1>4. \A i \in Nat : 1 <= i /\ i <= Len(v) => u[i] = v[i]
  <2> SUFFICES ASSUME NEW i \in Nat, 1 <= i, i <= Len(v) PROVE u[i] = v[i]
    OBVIOUS
  <2>1. i \in 1..k /\ 1 + i - 1 = i /\ i <= k + 1 - 1
    BY <1>1, <1>3
  <2> QED
    BY <1>2, <1>3, <2>1
<1>5. u = v
  <2>1. Len(u) = Len(v)
    BY <1>2, <1>3
  <2> QED
    BY <1>2, <1>3, <1>4, <2>1, SameSequence
<1> QED
  BY <1>5 DEF IsPrefix, u, v

(* Whatever its questions and records, their types and fields, and         *)
(* wherever its names point to: a message that is laid out as the format   *)
(* says is decoded to its records (wire.ts:450).                           *)
WrittenIsRead ==
  message.sort # "query" =>
    \A recs : IsMessage(message.bytes, recs) =>
      /\ stage # "thrown"
      /\ IsPrefix(answers, recs)
      /\ stage = "fulfilled" => answers = recs

(* Of such a message of which the end is missing, and that is decoded, the *)
(* records come out as they were sent, but for the tail of a field that    *)
(* runs to the end of the last one (wire.ts:457).                          *)
CutIsRead ==
  message.sort # "query" /\ stage = "fulfilled" =>
    \A w, recs : IsPrefix(message.bytes, w) /\ IsMessage(w, recs) =>
      /\ Len(answers) = Len(recs)
      /\ \A i \in 1..(Len(recs) - 1) : answers[i] = recs[i]
      /\ recs # <<>> => SameButForATail(Last(answers), Last(recs))

LEMMA AlongInvHolds == PureSpec => []AlongInv
<1>1. PureInit => AlongInv
  <2> SUFFICES ASSUME PureInit PROVE AlongInv
    OBVIOUS
  <2>1. message.bytes = <<>> /\ stage = "idle" /\ offset = 0 /\ left = 0 /\ answers = <<>>
    BY DEF PureInit, WireInit
  <2>2. <<>> \in Seq(Octets) /\ <<>> \in Seq(Records) /\ 0 \in Nat
    OBVIOUS
  <2> QED
    BY <2>1, <2>2 DEF AlongInv, ReadAlong, CutInv, IsBytes, ReadOn
<1>2. AlongInv /\ [PureNext]_pureVars => AlongInv'
  BY AlongInvStep
<1> QED
  BY <1>1, <1>2, PTL DEF PureSpec

LEMMA AlongReadsWhole == AlongInv => WrittenIsRead
<1> SUFFICES ASSUME AlongInv, message.sort # "query", NEW recs, NEW p, NEW r,
                    IsLaidOut(message.bytes, recs, p, r)
             PROVE  /\ stage # "thrown" /\ IsPrefix(answers, recs)
                    /\ stage = "fulfilled" => answers = recs
  BY DEF WrittenIsRead, IsMessage
<1> DEFINE b == message.bytes
           k == Len(answers)
<1>1. IsBytes(b) /\ answers \in Seq(Records) /\ left \in Nat /\ recs \in Seq(Records)
  BY DEF AlongInv, CutInv, IsLaidOut
<1>2. ReadAlong(b, recs, p, r)
  <2>1. IsCut(b, b)
    BY <1>1, CutOfItself
  <2> QED
    BY <2>1 DEF AlongInv
<1>3. stage # "thrown"
  BY <1>2 DEF ReadAlong
<1>4. stage \in {"idle", "questions"} => answers = <<>>
  BY DEF AlongInv, CutInv
<1>5. CASE stage \in {"answers", "fulfilled"}
  <2>1. /\ Len(recs) = k + left
        /\ \A i \in 1..k : Record(b, r[i - 1]) = Read(answers[i], r[i])
    BY <1>2, <1>5 DEF ReadAlong
  <2>2. k \in Nat /\ Len(recs) \in Nat /\ k <= Len(recs)
    BY <1>1, <2>1
  <2>3. ASSUME NEW i \in 1..k PROVE answers[i] = recs[i]
    <3>1. i \in 1..Len(recs)
      BY <2>2
    <3>2. Record(b, r[i - 1]) = Read(recs[i], r[i])
      BY <3>1, NextRecordRead
    <3>3. Read(answers[i], r[i]) = Read(recs[i], r[i])
      BY <2>1, <3>2
    <3> QED
      BY <3>3 DEF Read
  <2>4. IsPrefix(answers, recs)
    BY <1>1, <2>2, <2>3, Beginning
  <2>5. ASSUME stage = "fulfilled" PROVE answers = recs
    <3>1. left = 0
      BY <2>5 DEF AlongInv, CutInv
    <3>2. k = Len(recs) /\ \A i \in Nat : 1 <= i /\ i <= Len(recs) => answers[i] = recs[i]
      BY <2>1, <2>2, <2>3, <3>1
    <3>3. Len(answers) = Len(recs)
      BY <3>2
    <3> HIDE DEF k
    <3> QED
      BY <1>1, <3>2, <3>3, SameSequence
  <2> QED
    BY <1>3, <2>4, <2>5
<1>6. CASE stage \in {"idle", "questions"}
  <2>1. answers = <<>> /\ stage # "fulfilled"
    BY <1>4, <1>6
  <2>2. IsPrefix(<<>>, recs)
    <3>1. <<>> \in Seq(Records) /\ Len(<<>>) = 0 /\ 1..0 = {} /\ Len(recs) >= 0
      BY <1>1
    <3> QED
      BY <1>1, <3>1, Beginning
  <2> QED
    BY <1>3, <2>1, <2>2
<1>7. stage \in {"idle", "questions", "answers", "fulfilled"}
  BY <1>3 DEF AlongInv
<1> QED
  BY <1>5, <1>6, <1>7

(* A name that is read begins in the message.                              *)
LEMMA NameWithin ==
  ASSUME NEW b, IsBytes(b), NEW at \in Nat, ReadName(b, at).ok
  PROVE  at < Len(b)
<1>1. b \in Seq(Nat) /\ Len(b) \in Nat
  BY BytesAre
<1>2. PICK F : IsReader(b, F) /\ \A x : ReadLabels(b, x) = F[Rounds][x]
  BY <1>1, ReaderExists
<1>6. ReadLabels(b, at).ok
  BY NameIs
<1>3. Rounds \in 1..Rounds
  BY WireAssumption
<1>4. Round(b, at, F[Rounds - 1]).ok
  BY <1>2, <1>3, <1>6 DEF IsReader
<1>5. Has(b, at, 1)
  BY <1>4 DEF Round, Throws
<1> QED
  BY <1>1, <1>5 DEF Has

(* Every record but the last lies before the place where the message is    *)
(* cut off.                                                                *)
LEMMA AlongReadsCut == AlongInv => CutIsRead
<1> SUFFICES ASSUME AlongInv, message.sort # "query", stage = "fulfilled",
                    NEW w, NEW recs, NEW p, NEW r,
                    IsPrefix(message.bytes, w), IsLaidOut(w, recs, p, r)
             PROVE  /\ Len(answers) = Len(recs)
                    /\ \A i \in 1..(Len(recs) - 1) : answers[i] = recs[i]
                    /\ recs # <<>> => SameButForATail(Last(answers), Last(recs))
  BY DEF CutIsRead, IsMessage
<1> DEFINE b == message.bytes
           K == Len(recs)
<1>1. /\ IsBytes(b) /\ answers \in Seq(Records) /\ recs \in Seq(Records) /\ left = 0
      /\ w \in Seq(Octets) /\ K \in Nat /\ Len(b) \in Nat
  BY BytesAre DEF AlongInv, CutInv, IsLaidOut
<1>2. IsCut(b, w)
  BY <1>1, BeginningIsCut DEF IsBytes
<1>3. ReadAlong(w, recs, p, r)
  BY <1>2 DEF AlongInv
<1>4. Len(answers) = K /\ \A i \in 1..K : Record(b, r[i - 1]) = Read(answers[i], r[i])
  <2>1. K = Len(answers) + left /\ Len(answers) \in Nat
    BY <1>1, <1>3 DEF ReadAlong
  <2>2. Len(answers) = K
    BY <1>1, <2>1
  <2>3. \A i \in 1..Len(answers) : Record(b, r[i - 1]) = Read(answers[i], r[i])
    BY <1>3 DEF ReadAlong
  <2> HIDE DEF b, K
  <2> QED
    BY <2>2, <2>3
<1>5. ASSUME NEW i \in 1..K
      PROVE  /\ r[i - 1] \in Nat /\ r[i] \in Nat /\ recs[i] \in Records
             /\ RecordAt(w, r[i - 1], recs[i], r[i])
             /\ Record(w, r[i - 1]) = Read(recs[i], r[i])
             /\ Record(b, r[i - 1]).ok /\ Record(b, r[i - 1]).value = answers[i]
  <2>1. Record(b, r[i - 1]) = Read(answers[i], r[i])
    BY <1>4
  <2>2. Record(b, r[i - 1]).ok /\ Record(b, r[i - 1]).value = answers[i]
    BY <2>1 DEF Read
  <2> QED
    BY <2>2, NextRecordRead
<1> HIDE DEF b, K
<1>6. ASSUME NEW i \in 1..(K - 1) PROVE answers[i] = recs[i]
  <2>1. i \in 1..K /\ i + 1 \in 1..K /\ (i + 1) - 1 = i
    BY <1>1 DEF K
  <2>2. Record(b, r[i]).ok /\ r[i] \in Nat
    BY <1>5, <2>1
  <2>3. ReadName(b, r[i]).ok
    BY <2>2, RecordOk
  <2>4. r[i] < Len(b)
    BY <1>1, <2>2, <2>3, NameWithin DEF IsBytes
  <2>5. r[i] <= Len(b)
    BY <1>1, <2>2, <2>4
  <2>6. Record(b, r[i - 1]) = Read(recs[i], r[i])
    BY <1>2, <1>5, <2>1, <2>5, RecordWhole
  <2> QED
    BY <1>5, <2>1, <2>6 DEF Read
<1>7. ASSUME recs # <<>> PROVE SameButForATail(Last(answers), Last(recs))
  <2>1. K \in 1..K
    <3>1. K # 0
      <4>1. recs \in Seq(Records) /\ recs # <<>>
        BY <1>1, <1>7
      <4>2. Len(recs) \in Nat \ {0}
        BY <4>1, EmptySeq
      <4> QED
        BY <4>2 DEF K
    <3> QED
      BY <1>1, <3>1
  <2>2. SameButForATail(Record(b, r[K - 1]).value, Record(w, r[K - 1]).value)
    BY <1>2, <1>5, <2>1, RecordAlike
  <2>3. SameButForATail(answers[K], recs[K])
    <3>1. Record(w, r[K - 1]).value = recs[K] /\ Record(b, r[K - 1]).value = answers[K]
      <4>1. Record(w, r[K - 1]) = Read(recs[K], r[K]) /\ Record(b, r[K - 1]).value = answers[K]
        BY <1>5, <2>1
      <4> QED
        BY <4>1 DEF Read
    <3> QED
      BY <2>2, <3>1
  <2> QED
    BY <1>4, <2>3 DEF Last, K
<1> QED
  BY <1>4, <1>6, <1>7 DEF K

(* What is laid out as the format says is decoded to exactly its records,  *)
(* and never thrown out: a record that is read to its end leaves the call  *)
(* where the next one begins (wire.ts:450).  When the end is missing, it   *)
(* is thrown out or only a tail is lost (wire.ts:457).                     *)
THEOREM WrittenAreRead == PureSpec => [](WrittenIsRead /\ CutIsRead)
<1>1. AlongInv => WrittenIsRead /\ CutIsRead
  BY AlongReadsWhole, AlongReadsCut
<1> QED
  BY <1>1, AlongInvHolds, PTL

(* What is said of the messages that are decoded: the records they are     *)
(* said to be encoded from, or cut from the encoding of, are theirs.       *)
MeantIsWritten ==
  \A m \in Inputs :
    /\ m.sort = "whole" => IsMessage(m.bytes, m.meant)
    /\ m.sort = "cut" => m.meant # <<>> /\ \E w : IsPrefix(m.bytes, w) /\ IsMessage(w, m.meant)

SortInv == message.sort \in {"whole", "cut"} => message \in Inputs

LEMMA SortInvHolds == PureSpec => []SortInv
<1>1. PureInit => SortInv
  BY DEF PureInit, WireInit, SortInv
<1>2. SortInv /\ [PureNext]_pureVars => SortInv'
  BY DEF SortInv, PureNext, pureVars, wireVars, WireNext, ReadHeader, Encode, SkipQuestion,
         QuestionsDone, DecodeAnswer, ReturnMessage, ThrowOut
<1> QED
  BY <1>1, <1>2, PTL DEF PureSpec

(* A message comes out as the records it was encoded from, its texts as    *)
(* what their bytes say, however its names share their endings through     *)
(* pointers (wire.ts:200, wire.ts:450).                                    *)
THEOREM MeantDecoded == ASSUME MeantIsWritten PROVE PureSpec => []MeantIsDecoded
<1>1. WrittenIsRead /\ SortInv => MeantIsDecoded
  <2> SUFFICES ASSUME WrittenIsRead, SortInv, message.sort = "whole"
               PROVE  /\ stage # "thrown" /\ IsPrefix(answers, message.meant)
                      /\ stage = "fulfilled" => answers = message.meant
    BY DEF MeantIsDecoded
  <2>1. IsMessage(message.bytes, message.meant)
    BY DEF SortInv, MeantIsWritten
  <2> QED
    BY <2>1 DEF WrittenIsRead
<1> QED
  BY <1>1, WrittenAreRead, SortInvHolds, PTL

(* A message of which the end is missing is refused, or loses the tail of  *)
(* a field that runs to the end of its last record (wire.ts:457).          *)
THEOREM CutLoses == ASSUME MeantIsWritten PROVE PureSpec => []CutLosesOnlyATail
<1>1. AlongInv /\ CutIsRead /\ SortInv => CutLosesOnlyATail
  <2> SUFFICES ASSUME AlongInv, CutIsRead, SortInv, message.sort = "cut", stage = "fulfilled"
               PROVE  /\ Front(message.meant) = Front(answers)
                      /\ SameButForATail(Last(answers), Last(message.meant))
    BY DEF CutLosesOnlyATail
  <2> DEFINE meant == message.meant
  <2>1. PICK w : IsPrefix(message.bytes, w) /\ IsMessage(w, meant)
    BY DEF SortInv, MeantIsWritten
  <2>2. meant # <<>>
    BY DEF SortInv, MeantIsWritten
  <2>3. /\ Len(answers) = Len(meant)
        /\ \A i \in 1..(Len(meant) - 1) : answers[i] = meant[i]
        /\ SameButForATail(Last(answers), Last(meant))
    BY <2>1, <2>2 DEF CutIsRead
  <2>4. meant \in Seq(Records) /\ answers \in Seq(Records)
    BY <2>1 DEF IsMessage, IsLaidOut, AlongInv, CutInv
  <2> HIDE DEF meant
  <2>5. Front(meant) = Front(answers)
    <3> DEFINE m == Len(meant) - 1
               s == SubSeq(meant, 1, m)
               t == SubSeq(answers, 1, m)
    <3>1. m \in Nat /\ 1 \in Nat /\ 1 <= m + 1 /\ m <= Len(meant) /\ m <= Len(answers)
      BY <2>2, <2>3, <2>4
    <3>2. m = Len(meant) - 1 /\ m = Len(answers) - 1
      BY <2>3
    <3> HIDE DEF m
    <3>3. /\ s \in Seq(Records) /\ Len(s) = m + 1 - 1
          /\ \A i \in Nat : 1 <= i /\ i <= m + 1 - 1 => s[i] = meant[1 + i - 1]
      BY <2>4, <3>1, Part
    <3>4. /\ t \in Seq(Records) /\ Len(t) = m + 1 - 1
          /\ \A i \in Nat : 1 <= i /\ i <= m + 1 - 1 => t[i] = answers[1 + i - 1]
      BY <2>4, <3>1, Part
    <3>5. ASSUME NEW i \in Nat, 1 <= i, i <= m + 1 - 1 PROVE s[i] = t[i]
      <4>1. i \in 1..(Len(meant) - 1) /\ 1 + i - 1 = i
        BY <3>1, <3>2, <3>5
      <4> QED
        BY <2>3, <3>3, <3>4, <3>5, <4>1
    <3> HIDE DEF s, t
    <3>6. s = t
      <4>1. Len(s) = Len(t) /\ \A i \in Nat : 1 <= i /\ i <= Len(t) => s[i] = t[i]
        BY <3>3, <3>4, <3>5
      <4> QED
        BY <3>3, <3>4, <4>1, SameSequence
    <3>7. Front(meant) = SubSeq(meant, 1, Len(meant) - 1) /\ Front(answers) = SubSeq(answers, 1, Len(answers) - 1)
      BY DEF Front
    <3> QED
      BY <3>2, <3>6, <3>7 DEF s, t
  <2> QED
    BY <2>3, <2>5 DEF meant
<1> QED
  BY <1>1, WrittenAreRead, AlongInvHolds, SortInvHolds, PTL

=============================================================================

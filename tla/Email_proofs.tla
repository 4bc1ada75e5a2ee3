---------------------------- MODULE Email_proofs -----------------------------
(***************************************************************************)
(* Proofs about Email and the walk of SpfWalk, for any domains, policies   *)
(* and limit.  The walk's invariant ties together the recursion, the       *)
(* domains seen and the count: every domain asked for is new, was counted, *)
(* and has at most one call of `walk' on the stack.  For the verdict the   *)
(* count is tied to the terms it has counted (Counts): each level of the   *)
(* stack belongs to a domain, and is what is left of that domain's policy. *)
(***************************************************************************)
EXTENDS Email, FiniteSetTheorems, WellFoundedInduction, TLAPS

Asking == IF phase = "asking" THEN 1 ELSE 0

Known ==
  /\ seen = ToSet(asked)
  /\ IsFiniteSet(seen) /\ Cardinality(seen) = Len(asked)
  /\ \A i, j \in DOMAIN asked : asked[i] = asked[j] => i = j

Walk ==
  /\ Len(asked) <= total + 1 /\ Len(asked) <= Limit + 1
  /\ Len(stack) + Asking <= Len(asked)
  /\ ~exceeded => total <= Limit
  /\ phase = "asking" => asking \in Domains
  /\ phase = "walking" => stack # <<>>

RootPolicy ==
  /\ phase = "asking" /\ stack = <<>> => asking = Root
  /\ phase \in {"walking", "answered"} \/ (phase = "asking" /\ stack # <<>>) => published[Root] # NoPolicy
  /\ phase = "no record" => published[Root] = NoPolicy

Given ==
  /\ answers \in Answers
  /\ report \in {"pending", "rejected", "given"}
  /\ report = "given" =>
       /\ settled = Legs /\ Rejected = {}
       /\ phase \in {"answered", "no record"}
       /\ warnings = Rollup

(* What was counted of the domains seen, if own[k] is the domain of the    *)
(* k-th call of walk on the stack: all of a policy that is not on the      *)
(* stack, and of one that is, the terms before those left.                 *)
Counted(own) ==
  {l \in Lookups(seen \ {asking}) :
     \A k \in DOMAIN stack : own[k] = l[1] => l[2] + Len(stack[k]) <= Len(published[l[1]])}

(* own says which domain's policy each call on the stack walks: every call *)
(* another one, and what it has left is the end of that policy.            *)
Owns(own) ==
  /\ \A k, m \in DOMAIN stack : own[k] = own[m] => k = m
  /\ \A k \in DOMAIN stack :
       LET policy == published[own[k]]
       IN /\ own[k] \in seen \ {asking} /\ policy # NoPolicy
          /\ Len(stack[k]) <= Len(policy)
          /\ \A i \in DOMAIN stack[k] : stack[k][i] = policy[Len(policy) - Len(stack[k]) + i]

(* The count is that of the terms walked, whose targets have all been      *)
(* seen; once it exceeds the limit, so do the policies seen.               *)
Counts ==
  /\ \A R \in SUBSET Domains : IncludesWithin(R) => seen \subseteq R
  /\ Root \in seen
  /\ IF phase = "asking" THEN ~exceeded /\ asking \in seen ELSE asking = Nowhere
  /\ phase = "answered" => stack = <<>>
  /\ exceeded => total = Limit + 1 /\ Cardinality(Lookups(seen)) > Limit
  /\ phase \in {"asking", "walking", "answered"} /\ ~exceeded =>
       \E own \in [DOMAIN stack -> Domains] :
         /\ Owns(own)
         /\ total = Cardinality(Counted(own))
         /\ \A l \in Counted(own) : published[l[1]][l[2]].target \in seen \cup {Nowhere}

Inv == TypeOK /\ Known /\ Walk /\ RootPolicy /\ Counts /\ Given

-----------------------------------------------------------------------------
(* One element more. *)
LEMMA Appended ==
  ASSUME NEW S, NEW s \in Seq(S), NEW e \in S
  PROVE  /\ Append(s, e) \in Seq(S)
         /\ Len(Append(s, e)) = Len(s) + 1
         /\ DOMAIN Append(s, e) = DOMAIN s \cup {Len(s) + 1}
         /\ \A i \in DOMAIN s : i # Len(s) + 1 /\ Append(s, e)[i] = s[i]
         /\ Append(s, e)[Len(s) + 1] = e
  OBVIOUS

LEMMA AppendedSet ==
  ASSUME NEW S, NEW s \in Seq(S), NEW e \in S
  PROVE  ToSet(Append(s, e)) = ToSet(s) \cup {e}
<1>1. /\ DOMAIN Append(s, e) = DOMAIN s \cup {Len(s) + 1}
      /\ \A i \in DOMAIN s : Append(s, e)[i] = s[i]
      /\ Append(s, e)[Len(s) + 1] = e
  BY Appended
<1> QED
  BY <1>1, Zenon DEF ToSet

(* Putting a sequence in front. *)
LEMMA Pushed ==
  ASSUME NEW S, NEW s \in Seq(S), NEW e \in S
  PROVE  /\ Cons(e, s) \in Seq(S)
         /\ Len(Cons(e, s)) = Len(s) + 1
         /\ Cons(e, s) # <<>>
<1>1. <<e>> \in Seq(S) /\ Len(<<e>>) = 1
  OBVIOUS
<1>2. <<e>> \o s \in Seq(S) /\ Len(<<e>> \o s) = Len(s) + 1
  BY <1>1
<1> QED
  BY <1>2 DEF Cons

LEMMA Popped ==
  ASSUME NEW S, NEW s \in Seq(S), s # <<>>
  PROVE  /\ Tail(s) \in Seq(S)
         /\ Len(s) \in Nat /\ Len(Tail(s)) = Len(s) - 1
         /\ Len(s) = 1 \/ Tail(s) # <<>>
<1>1. Len(s) \in Nat \ {0}
  OBVIOUS
<1>2. Tail(s) \in Seq(S) /\ Len(Tail(s)) = Len(s) - 1
  OBVIOUS
<1>3. Tail(s) = <<>> => Len(Tail(s)) = 0
  BY Len(<<>>) = 0
<1> QED
  BY <1>1, <1>2, <1>3

(* What the steps use of the types. *)
LEMMA Types ==
  ASSUME TypeOK
  PROVE  /\ asked \in Seq(Domains) /\ Len(asked) \in Nat
         /\ stack \in Seq(Seq(Terms)) /\ Len(stack) \in Nat
         /\ total \in Nat
<1>1. asked \in Seq(Domains) /\ stack \in Seq(Seq(Terms)) /\ total \in 0 .. Limit + 1
  BY Zenon DEF TypeOK
<1>2. Len(asked) \in Nat
  BY <1>1
<1>3. Len(stack) \in Nat
  BY <1>1
<1>4. total \in Nat
  BY <1>1, SpfAssumption DEF SpfAssumption
<1> QED
  BY <1>1, <1>2, <1>3, <1>4

(* Nothing is counted while the root's own policy is awaited. *)
LEMMA InitCounts == EmailInit => Counts
<1> SUFFICES ASSUME EmailInit PROVE Counts
  OBVIOUS
<1>1. /\ phase = "asking" /\ asking = Root /\ stack = <<>> /\ total = 0 /\ exceeded = FALSE
      /\ seen = {Root}
  BY DEF EmailInit, Start
<1>2. \A R \in SUBSET Domains : IncludesWithin(R) => seen \subseteq R
  BY <1>1 DEF IncludesWithin
<1>3. PICK own \in [DOMAIN stack -> Domains] : TRUE
  <2>1. <<>> \in [DOMAIN stack -> Domains]
    BY <1>1
  <2> QED
    BY <2>1
<1>4. DOMAIN stack = {}
  BY <1>1
<1>5. Counted(own) = {}
  <2>1. seen \ {asking} = {}
    BY <1>1
  <2>2. Lookups({}) = {}
    BY DEF Lookups
  <2> QED
    BY <2>1, <2>2 DEF Counted
<1>6. Owns(own)
  BY <1>4 DEF Owns
<1> QED
  BY <1>1, <1>2, <1>5, <1>6, FS_EmptySet DEF Counts

LEMMA InitInv == EmailInit => Inv
<1> SUFFICES ASSUME EmailInit PROVE Inv
  OBVIOUS
<1> USE DEF EmailInit, Start
<1>1. published \in [Domains -> Policies \cup {NoPolicy}] /\ answers \in Answers
  BY EmailAssumption DEF EmailAssumption
<1>2. TypeOK
  <2>1. /\ asking \in Domains \cup {Nowhere} /\ asked \in Seq(Domains) /\ seen \in SUBSET Domains
        /\ total \in 0 .. Limit + 1
    BY SpfAssumption DEF SpfAssumption
  <2>2. stack \in Seq(Seq(Terms))
    OBVIOUS
  <2>3. exceeded \in BOOLEAN /\ phase \in {"asking", "walking", "no record", "answered", "failed"}
    BY Zenon
  <2> QED
    BY <1>1, <2>1, <2>2, <2>3, Zenon DEF TypeOK
<1>3. Known /\ Walk
  <2>1. asked = <<Root>> /\ seen = {Root} /\ Len(asked) = 1 /\ DOMAIN asked = {1} /\ asked[1] = Root
    OBVIOUS
  <2>2. ToSet(asked) = {Root}
    BY <2>1, Zenon DEF ToSet
  <2>3. IsFiniteSet(seen) /\ Cardinality(seen) = 1
    BY <2>1, FS_Singleton
  <2> QED
    BY <2>1, <2>2, <2>3, SpfAssumption DEF SpfAssumption, Known, Walk, Asking
<1>4. RootPolicy
  BY DEF RootPolicy
<1>5. Given
  BY <1>1 DEF Given
<1> QED
  BY <1>2, <1>3, <1>4, <1>5, InitCounts DEF Inv

-----------------------------------------------------------------------------
(* The steps of the walk *)

LEMMA ArrivesInv ==
  ASSUME TypeOK, Known, Walk, RootPolicy, TxtArrives
  PROVE  (TypeOK /\ Known /\ Walk /\ RootPolicy)'
<1> DEFINE policy == published[asking]
<1>0. phase = "asking" /\ stack \in Seq(Seq(Terms))
  BY DEF TxtArrives, TypeOK
<1>1. asking \in Domains /\ phase = "asking" /\ stack \in Seq(Seq(Terms)) /\ Len(stack) \in Nat
  BY <1>0 DEF Walk
<1>2. UNCHANGED <<published, total, exceeded, seen, asked>> /\ asking' = Nowhere
  BY DEF TxtArrives
<1>k. Known'
  BY <1>2 DEF Known
<1>3. CASE policy # NoPolicy
  <2>1. policy \in Seq(Terms)
    BY <1>1, <1>3, SpfAssumption DEF SpfAssumption, TypeOK
  <2>2. phase' = "walking" /\ stack' = Cons(policy, stack)
    BY <1>3 DEF TxtArrives
  <2>3. stack' \in Seq(Seq(Terms)) /\ Len(stack') = Len(stack) + 1 /\ stack' # <<>>
    BY <1>1, <2>1, <2>2, Pushed
  <2>4. TypeOK'
    BY <1>2, <2>2, <2>3 DEF TypeOK
  <2>5. Walk'
    BY <1>1, <1>2, <2>2, <2>3 DEF Walk, Asking
  <2>6. RootPolicy'
    BY <1>1, <1>2, <1>3, <2>2 DEF RootPolicy
  <2> QED
    BY <1>k, <2>4, <2>5, <2>6
<1>4. CASE policy = NoPolicy
  <2>1. phase' = (IF stack = <<>> THEN "no record" ELSE "walking") /\ stack' = stack
    BY <1>4 DEF TxtArrives
  <2>2. TypeOK'
    BY <1>2, <2>1 DEF TypeOK
  <2>3. Walk'
    <3>1. Asking = 1 /\ Asking' = 0 /\ Len(stack') \in Nat /\ Len(stack') = Len(stack)
      BY <1>1, <2>1 DEF Asking
    <3>2. Len(asked) \in Nat
      BY Types
    <3>3. phase' = "walking" => stack' # <<>>
      BY <2>1
    <3>4. Len(stack') + Asking' <= Len(asked)
      BY <1>1, <3>1, <3>2 DEF Walk
    <3>5. phase' # "asking"
      BY <2>1
    <3> QED
      BY <1>2, <3>3, <3>4, <3>5, Zenon DEF Walk
  <2>4. RootPolicy'
    BY <1>1, <1>2, <1>4, <2>1 DEF RootPolicy
  <2> QED
    BY <1>k, <2>2, <2>3, <2>4
<1> QED
  BY <1>3, <1>4

LEMMA FailsInv ==
  ASSUME TypeOK, Known, Walk, RootPolicy, TxtFails
  PROVE  (TypeOK /\ Known /\ Walk /\ RootPolicy)'
<1>1. TypeOK'
  BY DEF TypeOK, TxtFails
<1>2. Known' /\ Walk'
  BY DEF TypeOK, Known, Walk, Asking, TxtFails
<1>3. RootPolicy'
  BY DEF RootPolicy, TxtFails
<1> QED
  BY <1>1, <1>2, <1>3

LEMMA ReturnInv ==
  ASSUME TypeOK, Known, Walk, RootPolicy, ReturnFromWalk
  PROVE  (TypeOK /\ Known /\ Walk /\ RootPolicy)'
<1>1. /\ phase = "walking" /\ stack \in Seq(Seq(Terms)) /\ stack # <<>>
      /\ UNCHANGED <<published, asking, total, exceeded, seen, asked>>
      /\ stack' = Tail(stack)
      /\ phase' = (IF Len(stack) = 1 THEN "answered" ELSE "walking")
  BY DEF TypeOK, Walk, ReturnFromWalk
<1>2. stack' \in Seq(Seq(Terms)) /\ Len(stack') = Len(stack) - 1 /\ Len(stack) \in Nat \ {0}
  BY <1>1
<1>3. TypeOK'
  BY <1>1, <1>2 DEF TypeOK
<1>4. Known'
  BY <1>1 DEF Known
<1>6. Walk'
  <2>1. Asking = 0 /\ Asking' = 0
    BY <1>1 DEF Asking
  <2>2. Len(asked) \in Nat /\ Len(stack') \in Nat
    BY <1>2, Types
  <2>3. Len(stack) = 1 \/ stack' # <<>>
    BY <1>1, Popped
  <2> QED
    BY <1>1, <1>2, <2>1, <2>2, <2>3 DEF Walk
<1>5. RootPolicy'
  BY <1>1 DEF RootPolicy
<1> QED
  BY <1>3, <1>4, <1>5, <1>6

(* A term that asks for a domain counts, and the domain is new. *)
LEMMA TermInv ==
  ASSUME TypeOK, Known, Walk, RootPolicy, Term
  PROVE  (TypeOK /\ Known /\ Walk /\ RootPolicy)'
<1> DEFINE term == Head(Head(stack))
           counted == total + (IF term.counts THEN 1 ELSE 0)
           asks == Follows(term) /\ ~Exceeds(counted)
<1>1. /\ phase = "walking" /\ ~exceeded /\ stack # <<>> /\ Head(stack) # <<>>
      /\ stack \in Seq(Seq(Terms)) /\ total \in Nat /\ total <= Limit /\ Limit \in Nat
  BY SpfAssumption DEF SpfAssumption, TypeOK, Walk, Term
<1>2. /\ stack' = Cons(Tail(Head(stack)), Tail(stack))
      /\ total' = counted /\ exceeded' = Exceeds(counted)
      /\ seen' = (IF asks THEN seen \cup {term.target} ELSE seen)
      /\ asked' = (IF asks THEN Append(asked, term.target) ELSE asked)
      /\ asking' = (IF asks THEN term.target ELSE Nowhere)
      /\ phase' = (IF asks THEN "asking" ELSE "walking")
      /\ published' = published
  BY DEF Term
<1>3. /\ Head(stack) \in Seq(Terms) /\ Tail(stack) \in Seq(Seq(Terms))
      /\ Len(Tail(stack)) = Len(stack) - 1 /\ Len(stack) \in Nat
  BY <1>1
<1>4. term \in Terms /\ Tail(Head(stack)) \in Seq(Terms)
  BY <1>1, <1>3
<1>5. stack' \in Seq(Seq(Terms)) /\ Len(stack') = Len(stack) /\ stack' # <<>>
  <2> DEFINE rest == Tail(Head(stack))
             outer == Tail(stack)
  <2>1. rest \in Seq(Terms) /\ outer \in Seq(Seq(Terms)) /\ stack' = Cons(rest, outer)
    BY <1>2, <1>3, <1>4
  <2> HIDE DEF rest
  <2>2. Len(outer) = Len(stack) - 1 /\ Len(stack) \in Nat
    BY <1>3
  <2> HIDE DEF outer
  <2>3. Cons(rest, outer) \in Seq(Seq(Terms)) /\ Len(Cons(rest, outer)) = Len(outer) + 1 /\ Cons(rest, outer) # <<>>
    BY <2>1, Pushed
  <2> QED
    BY <2>1, <2>2, <2>3
<1>6. counted \in Nat /\ total <= counted /\ counted <= Limit + 1 /\ (term.counts => counted = total + 1)
  BY <1>1
<1>7. exceeded' \in BOOLEAN /\ (~exceeded' => total' <= Limit) /\ total' \in 0 .. Limit + 1
  <2>1. total' \in Nat /\ total' <= Limit + 1
    BY <1>2, <1>6
  <2>2. exceeded' = (total' > Limit)
    BY <1>2 DEF Exceeds
  <2>3. exceeded' \in BOOLEAN
    BY <2>2
  <2>4. ~exceeded' => ~(total' > Limit)
    BY <2>2, Zenon
  <2> QED
    BY <1>1, <2>1, <2>3, <2>4
<1> HIDE DEF term, counted
<1>8. CASE asks
  <2>1. term.target \in Domains \ seen
    BY <1>4, <1>8 DEF Follows, Terms
  <2>2. asked \in Seq(Domains) /\ asked' = Append(asked, term.target) /\ Len(asked) \in Nat
    BY <1>2, <1>8, Types
  <2>3. /\ asked' \in Seq(Domains) /\ Len(asked') = Len(asked) + 1
        /\ DOMAIN asked' = DOMAIN asked \cup {Len(asked')}
        /\ \A i \in DOMAIN asked : asked'[i] = asked[i] /\ i # Len(asked')
        /\ asked'[Len(asked')] = term.target
    BY <2>1, <2>2, Appended
  <2>4. seen' = ToSet(asked') /\ seen' = seen \cup {term.target}
    BY <1>2, <1>8, <2>1, <2>2, AppendedSet DEF Known
  <2>5. IsFiniteSet(seen') /\ Cardinality(seen') = Len(asked')
    <3>1. IsFiniteSet(seen) /\ Cardinality(seen) = Len(asked)
      BY DEF Known
    <3>2. /\ IsFiniteSet(seen \cup {term.target})
          /\ Cardinality(seen \cup {term.target}) = Cardinality(seen) + 1
      BY <2>1, <3>1, FS_AddElement
    <3> QED
      BY <2>3, <2>4, <3>1, <3>2
  <2>6. \A i, j \in DOMAIN asked' : asked'[i] = asked'[j] => i = j
    <3>1. \A i \in DOMAIN asked : asked[i] \in seen
      BY Zenon DEF Known, ToSet
    <3>2. \A i, j \in DOMAIN asked : asked[i] = asked[j] => i = j
      BY DEF Known
    <3> QED
      BY <2>1, <2>3, <3>1, <3>2, Zenon
  <2>7. Len(asked') <= total' + 1 /\ Len(asked') <= Limit + 1
    <3>1. counted = total + 1
      BY <1>4, <1>6, <1>8 DEF Follows, Terms
    <3>2. counted <= Limit
      BY <1>1, <1>6, <1>8 DEF Exceeds
    <3> QED
      BY <1>1, <1>2, <2>2, <2>3, <3>1, <3>2 DEF Walk
  <2>8. TypeOK'
    BY <1>2, <1>5, <1>7, <1>8, <2>1, <2>3, <2>4 DEF TypeOK
  <2>k. Known'
    BY <2>4, <2>5, <2>6 DEF Known
  <2>9. Walk'
    BY <1>1, <1>2, <1>3, <1>5, <1>7, <1>8, <2>1, <2>2, <2>3, <2>7 DEF Walk, Asking
  <2>10. RootPolicy'
    BY <1>1, <1>2, <1>5, <1>8 DEF RootPolicy
  <2> QED
    BY <2>8, <2>9, <2>10, <2>k
<1>9. CASE ~asks
  <2>1. TypeOK'
    BY <1>2, <1>5, <1>7, <1>9 DEF TypeOK
  <2>2. Known' /\ Walk'
    BY <1>1, <1>2, <1>3, <1>5, <1>6, <1>7, <1>9 DEF Known, Walk, Asking, TypeOK
  <2>3. RootPolicy'
    BY <1>1, <1>2, <1>9 DEF RootPolicy
  <2> QED
    BY <2>1, <2>2, <2>3
<1> QED
  BY <1>8, <1>9

LEMMA StepInv ==
  ASSUME TypeOK, Known, Walk, RootPolicy, Step
  PROVE  (TypeOK /\ Known /\ Walk /\ RootPolicy)'
  BY ArrivesInv, FailsInv, ReturnInv, TermInv DEF Step

-----------------------------------------------------------------------------
(* The count *)

LEMMA LookupMember ==
  ASSUME NEW S, NEW l
  PROVE  l \in Lookups(S) <=>
           \E d \in S : /\ published[d] # NoPolicy
                        /\ \E i \in DOMAIN published[d] : l = <<d, i>> /\ published[d][i].counts
<1>1. \A d : l \in LookupsOf(d) <=>
               /\ published[d] # NoPolicy
               /\ \E i \in DOMAIN published[d] : l = <<d, i>> /\ published[d][i].counts
  BY DEF LookupsOf
<1>2. l \in Lookups(S) <=> \E d \in S : l \in LookupsOf(d)
  BY Zenon DEF Lookups
<1> QED
  BY <1>1, <1>2, Zenon

(* Finitely many domains have finitely many terms. *)
LEMMA LookupsFinite ==
  ASSUME TypeOK, NEW S \in SUBSET Domains
  PROVE  IsFiniteSet(Lookups(S))
<1> DEFINE sets == {LookupsOf(d) : d \in S}
           f == [d \in S |-> LookupsOf(d)]
<1>1. IsFiniteSet(S)
  BY SpfAssumption, FS_Subset DEF SpfAssumption
<1>2. f \in Surjection(S, sets)
  BY Zenon DEF Surjection
<1>3. IsFiniteSet(sets)
  <2> HIDE DEF f, sets
  <2> QED
    BY <1>1, <1>2, FS_Surjection
<1>4. ASSUME NEW d \in S PROVE IsFiniteSet(LookupsOf(d))
  <2>1. CASE published[d] = NoPolicy
    BY <2>1, FS_EmptySet DEF LookupsOf
  <2>2. CASE published[d] # NoPolicy
    <3> DEFINE I == {i \in DOMAIN published[d] : published[d][i].counts}
    <3>1. published[d] \in Seq(Terms)
      BY <2>2, SpfAssumption DEF SpfAssumption, TypeOK
    <3>2. DOMAIN published[d] = 1 .. Len(published[d]) /\ Len(published[d]) \in Nat
      BY <3>1
    <3>3. IsFiniteSet(DOMAIN published[d])
      BY <3>2, FS_Interval
    <3>4. IsFiniteSet(I)
      BY <3>3, FS_Subset
    <3>5. IsFiniteSet({d})
      BY FS_Singleton
    <3>6. IsFiniteSet({d} \X I)
      <4> HIDE DEF I
      <4> QED
        BY <3>4, <3>5, FS_Product
    <3> QED
      BY <2>2, <3>6, Zenon DEF LookupsOf
  <2> QED
    BY <2>1, <2>2
<1>5. \A T \in sets : IsFiniteSet(T)
  BY <1>4, Zenon
<1>6. IsFiniteSet(UNION sets)
  <2> HIDE DEF sets
  <2> QED
    BY <1>3, <1>5, FS_UNION
<1> QED
  BY <1>6, Zenon DEF Lookups

LEMMA LookupsGrow ==
  ASSUME TypeOK, NEW T \in SUBSET Domains, NEW S \in SUBSET Lookups(T)
  PROVE  /\ IsFiniteSet(S) /\ Cardinality(S) \in Nat
         /\ Cardinality(Lookups(T)) \in Nat
         /\ Cardinality(S) <= Cardinality(Lookups(T))
  BY LookupsFinite, FS_Subset, FS_CardinalityType

(* What holds at a place of the stack after a call, and after a return. *)
LEMMA PushedAt ==
  ASSUME NEW S, NEW s \in Seq(S), NEW e \in S
  PROVE  /\ DOMAIN s = 1 .. Len(s) /\ Len(s) \in Nat
         /\ DOMAIN Cons(e, s) = 1 .. Len(s) + 1
         /\ Cons(e, s)[1] = e
         /\ \A k \in DOMAIN s : Cons(e, s)[k + 1] = s[k]
         /\ \A k \in DOMAIN Cons(e, s) : k # 1 => k - 1 \in DOMAIN s /\ Cons(e, s)[k] = s[k - 1]
<1>1. <<e>> \in Seq(S) /\ Len(<<e>>) = 1 /\ <<e>>[1] = e
  OBVIOUS
<1>2. DOMAIN s = 1 .. Len(s) /\ Len(s) \in Nat
  OBVIOUS
<1>3. Len(<<e>> \o s) = Len(s) + 1 /\ DOMAIN (<<e>> \o s) = 1 .. Len(s) + 1
  BY <1>1
<1>4. (<<e>> \o s)[1] = e
  BY <1>1
<1>5. \A k \in 2 .. Len(s) + 1 : (<<e>> \o s)[k] = s[k - 1]
  BY <1>1
<1> QED
  BY <1>2, <1>3, <1>4, <1>5 DEF Cons

LEMMA PoppedAt ==
  ASSUME NEW S, NEW s \in Seq(S), s # <<>>
  PROVE  /\ DOMAIN s = 1 .. Len(s) /\ Len(s) \in Nat \ {0}
         /\ s[1] \in S /\ Head(s) = s[1]
         /\ DOMAIN Tail(s) = 1 .. Len(s) - 1
         /\ \A k \in DOMAIN Tail(s) : k + 1 \in DOMAIN s /\ Tail(s)[k] = s[k + 1]
<1>1. DOMAIN s = 1 .. Len(s) /\ Len(s) \in Nat \ {0}
  OBVIOUS
<1>2. s[1] \in S /\ Head(s) = s[1]
  BY <1>1
<1>3. DOMAIN Tail(s) = 1 .. Len(s) - 1
  BY <1>1
<1>4. \A k \in 1 .. Len(s) - 1 : Tail(s)[k] = s[k + 1]
  BY <1>1
<1> QED
  BY <1>1, <1>2, <1>3, <1>4

(* The policy of a domain, and the calls on the stack. *)
LEMMA PolicyTypes ==
  ASSUME TypeOK, NEW d \in Domains, published[d] # NoPolicy
  PROVE  /\ published[d] \in Seq(Terms)
         /\ DOMAIN published[d] = 1 .. Len(published[d]) /\ Len(published[d]) \in Nat
<1>1. published[d] \in Seq(Terms)
  BY SpfAssumption DEF SpfAssumption, TypeOK
<1> QED
  BY <1>1

LEMMA CallTypes ==
  ASSUME TypeOK
  PROVE  /\ DOMAIN stack = 1 .. Len(stack) /\ Len(stack) \in Nat
         /\ \A k \in DOMAIN stack :
              /\ stack[k] \in Seq(Terms)
              /\ DOMAIN stack[k] = 1 .. Len(stack[k]) /\ Len(stack[k]) \in Nat
<1>1. stack \in Seq(Seq(Terms))
  BY DEF TypeOK
<1>2. \A k \in DOMAIN stack : stack[k] \in Seq(Terms)
  BY <1>1
<1> QED
  BY <1>1, <1>2

(* The policies do not change. *)
LEMMA LookupsNext ==
  ASSUME published' = published
  PROVE  /\ Lookups(seen \ {asking})' = Lookups(seen' \ {asking'})
         /\ Lookups(seen)' = Lookups(seen')
<1>1. \A d : LookupsOf(d)' = LookupsOf(d)
  BY DEF LookupsOf
<1> QED
  BY <1>1, Zenon DEF Lookups

LEMMA CountedNext ==
  ASSUME published' = published, NEW own
  PROVE  Counted(own)' = {l \in Lookups(seen' \ {asking'}) : \A k \in DOMAIN stack' :
                            own[k] = l[1] => l[2] + Len(stack'[k]) <= Len(published[l[1]])}
<1>1. Counted(own)' = {l \in Lookups(seen \ {asking})' : \A k \in DOMAIN stack' :
                         own[k] = l[1] => l[2] + Len(stack'[k]) <= Len(published'[l[1]])}
  BY Zenon DEF Counted
<1> QED
  BY <1>1, LookupsNext, Zenon

(* The policy that arrives is that of the domain asked for; nothing of it  *)
(* is counted yet.                                                         *)
LEMMA ArrivesCounts ==
  ASSUME TypeOK, Walk, Counts, TxtArrives
  PROVE  Counts'
<1>1. /\ phase = "asking" /\ ~exceeded /\ asking \in seen /\ asking \in Domains
      /\ asking' = Nowhere /\ phase' # "asking" /\ phase' # "answered"
      /\ published' = published /\ total' = total /\ exceeded' = exceeded /\ seen' = seen
      /\ seen \subseteq Domains /\ Nowhere \notin Domains
  BY SpfAssumption DEF SpfAssumption, TypeOK, Walk, Counts, TxtArrives
<1>2. /\ \A R \in SUBSET Domains : IncludesWithin(R) => seen \subseteq R
      /\ Root \in seen
  BY DEF Counts
<1>3. /\ \A R \in SUBSET Domains : IncludesWithin(R)' => seen' \subseteq R
      /\ Root \in seen'
  BY <1>1, <1>2 DEF IncludesWithin, Includes
<1> SUFFICES \E new \in [DOMAIN stack' -> Domains] :
                /\ Owns(new)'
                /\ total' = Cardinality(Counted(new)')
                /\ \A l \in Counted(new)' : published'[l[1]][l[2]].target \in seen' \cup {Nowhere}
  BY <1>1, <1>3 DEF Counts
<1>4. PICK own \in [DOMAIN stack -> Domains] :
        /\ Owns(own)
        /\ total = Cardinality(Counted(own))
        /\ \A l \in Counted(own) : published[l[1]][l[2]].target \in seen \cup {Nowhere}
  BY <1>1 DEF Counts
<1>5. PICK me \in Domains : me = asking
  BY <1>1
<1>6. seen' \ {asking'} = seen /\ seen = (seen \ {me}) \cup {me}
  BY <1>1, <1>5
<1>7. CASE published[asking] # NoPolicy
  <2> DEFINE policy == published[asking]
  <2>1. policy \in Seq(Terms) /\ DOMAIN policy = 1 .. Len(policy) /\ Len(policy) \in Nat
    BY <1>1, <1>7, PolicyTypes
  <2>2. stack' = Cons(policy, stack) /\ stack \in Seq(Seq(Terms))
    BY <1>7 DEF TxtArrives, TypeOK
  <2>3. /\ DOMAIN stack = 1 .. Len(stack) /\ Len(stack) \in Nat
        /\ DOMAIN stack' = 1 .. Len(stack) + 1
        /\ stack'[1] = policy
        /\ \A k \in DOMAIN stack : stack'[k + 1] = stack[k]
        /\ \A k \in DOMAIN stack' : k # 1 => k - 1 \in DOMAIN stack /\ stack'[k] = stack[k - 1]
    <3> HIDE DEF policy
    <3> QED
      BY <2>1, <2>2, PushedAt
  <2>4. PICK new : new = [k \in DOMAIN stack' |-> IF k = 1 THEN me ELSE own[k - 1]]
    OBVIOUS
  <2>5. /\ new \in [DOMAIN stack' -> Domains]
        /\ new[1] = me
        /\ \A k \in DOMAIN stack' : k # 1 => new[k] = own[k - 1] /\ new[k] \in seen \ {me}
        /\ \A k \in DOMAIN stack : new[k + 1] = own[k]
    <3>1. \A k \in DOMAIN stack : own[k] \in Domains /\ own[k] \in seen \ {me}
      BY <1>4, <1>5 DEF Owns
    <3>2. \A k \in DOMAIN stack' : k # 1 => k - 1 \in DOMAIN stack
      BY <2>3
    <3>3. 1 \in DOMAIN stack'
      BY <2>3
    <3>4. \A k \in DOMAIN stack : k + 1 \in DOMAIN stack' /\ k + 1 # 1 /\ (k + 1) - 1 = k
      BY <2>3
    <3>5. \A k \in DOMAIN stack' : new[k] = IF k = 1 THEN me ELSE own[k - 1]
      BY <2>4
    <3>6. new \in [DOMAIN stack' -> Domains]
      BY <2>4, <3>1, <3>2
    <3>7. \A k \in DOMAIN stack : new[k + 1] = own[k]
      BY <3>4, <3>5
    <3> QED
      BY <3>1, <3>2, <3>3, <3>5, <3>6, <3>7
  <2>6. Owns(new)'
    <3>1. \A k, m \in DOMAIN stack' : new[k] = new[m] => k = m
      <4>1. \A k, m \in DOMAIN stack : own[k] = own[m] => k = m
        BY <1>4 DEF Owns
      <4> SUFFICES ASSUME NEW k \in DOMAIN stack', NEW m \in DOMAIN stack', new[k] = new[m] PROVE k = m
        OBVIOUS
      <4>2. k = 1 <=> m = 1
        BY <2>5
      <4>3. CASE k # 1
        <5>1. k - 1 \in DOMAIN stack /\ m - 1 \in DOMAIN stack /\ own[k - 1] = own[m - 1]
          BY <2>3, <2>5, <4>2, <4>3
        <5>2. k - 1 = m - 1
          BY <4>1, <5>1
        <5> QED
          BY <2>3, <5>2
      <4> QED
        BY <4>2, <4>3
    <3>2. ASSUME NEW k \in DOMAIN stack'
          PROVE  /\ new[k] \in seen' \ {asking'} /\ published'[new[k]] # NoPolicy
                 /\ Len(stack'[k]) <= Len(published'[new[k]])
                 /\ \A i \in DOMAIN stack'[k] :
                      stack'[k][i] = published'[new[k]][Len(published'[new[k]]) - Len(stack'[k]) + i]
      <4>1. CASE k = 1
        <5>1. new[k] = me /\ stack'[k] = policy /\ published'[new[k]] = policy
          BY <1>1, <1>5, <2>3, <2>5, <4>1
        <5> HIDE DEF policy
        <5>2. \A i \in DOMAIN policy : Len(policy) - Len(policy) + i = i
          BY <2>1
        <5> QED
          BY <1>1, <1>5, <1>6, <1>7, <2>1, <5>1, <5>2 DEF policy
      <4>2. CASE k # 1
        <5>1. k - 1 \in DOMAIN stack /\ stack'[k] = stack[k - 1] /\ new[k] = own[k - 1]
          BY <2>3, <2>5, <4>2
        <5> QED
          BY <1>1, <1>4, <1>6, <5>1 DEF Owns
      <4> QED
        BY <4>1, <4>2
    <3> QED
      BY <3>1, <3>2 DEF Owns
  <2>7. Counted(new)' = Counted(own)
    <3>1. Counted(new)' = {l \in Lookups(seen) : \A k \in DOMAIN stack' :
                             new[k] = l[1] => l[2] + Len(stack'[k]) <= Len(published[l[1]])}
      BY <1>1, <1>6, CountedNext, Zenon
    <3>2. ASSUME NEW l \in Counted(new)' PROVE l \in Counted(own)
      <4>1. PICK d \in seen : published[d] # NoPolicy /\ \E i \in DOMAIN published[d] : l = <<d, i>> /\ published[d][i].counts
        BY <3>1, <3>2, LookupMember
      <4>2. PICK i \in DOMAIN published[d] : l = <<d, i>> /\ published[d][i].counts
        BY <4>1
      <4>3. d # me
        <5> SUFFICES ASSUME d = me PROVE FALSE
          OBVIOUS
        <5>1. i + Len(policy) <= Len(policy)
          BY <1>5, <2>3, <2>5, <3>1, <3>2, <4>2
        <5>2. i \in 1 .. Len(policy)
          BY <1>5, <2>1, <4>2
        <5> HIDE DEF policy
        <5> QED
          BY <2>1, <5>1, <5>2
      <4>4. l \in Lookups(seen \ {asking})
        BY <1>5, <4>1, <4>2, <4>3, LookupMember
      <4>5. \A k \in DOMAIN stack : own[k] = l[1] => l[2] + Len(stack[k]) <= Len(published[l[1]])
        <5> SUFFICES ASSUME NEW k \in DOMAIN stack, own[k] = l[1]
                     PROVE  l[2] + Len(stack[k]) <= Len(published[l[1]])
          OBVIOUS
        <5>1. k + 1 \in DOMAIN stack' /\ stack'[k + 1] = stack[k] /\ new[k + 1] = own[k]
          BY <2>3, <2>5
        <5> QED
          BY <3>1, <3>2, <5>1
      <4> QED
        BY <4>4, <4>5 DEF Counted
    <3>3. ASSUME NEW l \in Counted(own) PROVE l \in Counted(new)'
      <4>1. PICK d \in seen \ {me} : published[d] # NoPolicy /\ \E i \in DOMAIN published[d] : l = <<d, i>> /\ published[d][i].counts
        BY <1>5, <3>3, LookupMember DEF Counted
      <4>2. l[1] # me /\ l \in Lookups(seen)
        BY <4>1, LookupMember
      <4>3. \A k \in DOMAIN stack' : new[k] = l[1] => l[2] + Len(stack'[k]) <= Len(published[l[1]])
        <5> SUFFICES ASSUME NEW k \in DOMAIN stack', new[k] = l[1]
                     PROVE  l[2] + Len(stack'[k]) <= Len(published[l[1]])
          OBVIOUS
        <5>1. k # 1
          BY <2>5, <4>2
        <5>2. k - 1 \in DOMAIN stack /\ stack'[k] = stack[k - 1] /\ own[k - 1] = l[1]
          BY <2>3, <2>5, <5>1
        <5> QED
          BY <3>3, <5>2 DEF Counted
      <4> QED
        BY <3>1, <4>2, <4>3
    <3> QED
      BY <3>2, <3>3
  <2> QED
    BY <1>1, <1>4, <2>5, <2>6, <2>7, Zenon
<1>8. CASE published[asking] = NoPolicy
  <2>1. stack' = stack
    BY <1>8 DEF TxtArrives
  <2>2. Owns(own)'
    BY <1>1, <1>4, <1>6, <2>1 DEF Owns
  <2>3. Lookups(seen) = Lookups(seen \ {asking})
    <3>1. \A d \in seen : published[d] # NoPolicy => d \in seen \ {asking}
      BY <1>8
    <3>2. \A l : l \in Lookups(seen) <=> l \in Lookups(seen \ {asking})
      BY <3>1, LookupMember
    <3> QED
      BY <3>2
  <2>4. Counted(own)' = Counted(own)
    <3>1. Counted(own)' = {l \in Lookups(seen) : \A k \in DOMAIN stack :
                             own[k] = l[1] => l[2] + Len(stack[k]) <= Len(published[l[1]])}
      BY <1>1, <1>6, <2>1, CountedNext, Zenon
    <3> QED
      BY <2>3, <3>1, Zenon DEF Counted
  <2> QED
    BY <1>1, <1>4, <2>1, <2>2, <2>4, Zenon
<1> QED
  BY <1>7, <1>8

LEMMA FailsCounts ==
  ASSUME TypeOK, Counts, TxtFails
  PROVE  Counts'
<1>1. /\ phase' = "failed" /\ asking' = Nowhere /\ ~exceeded
      /\ published' = published /\ exceeded' = exceeded /\ seen' = seen
  BY DEF Counts, TxtFails
<1> QED
  BY <1>1 DEF Counts, IncludesWithin, Includes

(* The call that returns has counted its policy, or the limit is exceeded. *)
LEMMA ReturnCounts ==
  ASSUME TypeOK, Walk, Counts, ReturnFromWalk
  PROVE  Counts'
<1>1. /\ phase = "walking" /\ stack # <<>> /\ stack' = Tail(stack)
      /\ phase' = (IF Len(stack) = 1 THEN "answered" ELSE "walking")
      /\ published' = published /\ total' = total /\ exceeded' = exceeded /\ seen' = seen
      /\ asking' = asking
  BY DEF Walk, ReturnFromWalk
<1>2. /\ DOMAIN stack = 1 .. Len(stack) /\ Len(stack) \in Nat \ {0}
      /\ Head(stack) = stack[1]
      /\ DOMAIN stack' = 1 .. Len(stack) - 1
      /\ \A k \in DOMAIN stack' : k + 1 \in DOMAIN stack /\ stack'[k] = stack[k + 1]
  <2>1. stack \in Seq(Seq(Terms))
    BY DEF TypeOK
  <2> QED
    BY <1>1, <2>1, PoppedAt
<1>3. phase' = "answered" => stack' = <<>>
  <2>1. stack \in Seq(Seq(Terms))
    BY DEF TypeOK
  <2>2. Tail(stack) \in Seq(Seq(Terms)) /\ Len(Tail(stack)) = Len(stack) - 1
    BY <1>1, <2>1, Popped
  <2>3. \A s \in Seq(Seq(Terms)) : Len(s) = 0 => s = <<>>
    OBVIOUS
  <2> QED
    BY <1>1, <1>2, <2>2, <2>3
<1>4. /\ \A R \in SUBSET Domains : IncludesWithin(R)' => seen' \subseteq R
      /\ Root \in seen'
  BY <1>1 DEF Counts, IncludesWithin, Includes
<1>5. exceeded' => total' = Limit + 1 /\ Cardinality(Lookups(seen)') > Limit
  BY <1>1, LookupsNext DEF Counts
<1>6. asking' = Nowhere /\ phase' # "asking"
  BY <1>1 DEF Counts
<1>7. CASE exceeded
  BY <1>1, <1>3, <1>4, <1>5, <1>6, <1>7 DEF Counts
<1>8. CASE ~exceeded
  <2> SUFFICES \E new \in [DOMAIN stack' -> Domains] :
                  /\ Owns(new)'
                  /\ total' = Cardinality(Counted(new)')
                  /\ \A l \in Counted(new)' : published'[l[1]][l[2]].target \in seen' \cup {Nowhere}
    BY <1>1, <1>3, <1>4, <1>6, <1>8 DEF Counts
  <2>1. PICK own \in [DOMAIN stack -> Domains] :
          /\ Owns(own)
          /\ total = Cardinality(Counted(own))
          /\ \A l \in Counted(own) : published[l[1]][l[2]].target \in seen \cup {Nowhere}
    BY <1>1, <1>8 DEF Counts
  <2>2. PICK new : new = [k \in DOMAIN stack' |-> own[k + 1]]
    OBVIOUS
  <2>3. new \in [DOMAIN stack' -> Domains] /\ \A k \in DOMAIN stack' : new[k] = own[k + 1]
    BY <1>2, <2>1, <2>2
  <2>4. Owns(new)'
    <3>1. \A k, m \in DOMAIN stack' : new[k] = new[m] => k = m
      <4> SUFFICES ASSUME NEW k \in DOMAIN stack', NEW m \in DOMAIN stack', new[k] = new[m] PROVE k = m
        OBVIOUS
      <4>1. k + 1 \in DOMAIN stack /\ m + 1 \in DOMAIN stack /\ own[k + 1] = own[m + 1]
        BY <1>2, <2>3
      <4>2. k + 1 = m + 1
        BY <2>1, <4>1 DEF Owns
      <4> QED
        BY <1>2, <4>2
    <3>2. ASSUME NEW k \in DOMAIN stack'
          PROVE  /\ new[k] \in seen' \ {asking'} /\ published'[new[k]] # NoPolicy
                 /\ Len(stack'[k]) <= Len(published'[new[k]])
                 /\ \A i \in DOMAIN stack'[k] :
                      stack'[k][i] = published'[new[k]][Len(published'[new[k]]) - Len(stack'[k]) + i]
      <4>1. k + 1 \in DOMAIN stack /\ stack'[k] = stack[k + 1] /\ new[k] = own[k + 1]
        BY <1>2, <2>3
      <4> QED
        BY <1>1, <2>1, <4>1 DEF Owns
    <3> QED
      BY <3>1, <3>2 DEF Owns
  <2>5. Counted(new)' = Counted(own)
    <3>1. Counted(new)' = {l \in Lookups(seen \ {asking}) : \A k \in DOMAIN stack' :
                             new[k] = l[1] => l[2] + Len(stack'[k]) <= Len(published[l[1]])}
      BY <1>1, CountedNext, Zenon
    <3>2. Len(stack[1]) = 0
      <4>1. Head(stack) = <<>>
        BY <1>8 DEF ReturnFromWalk
      <4> QED
        BY <1>2, <4>1
    <3>3. ASSUME NEW l \in Counted(new)' PROVE l \in Counted(own)
      <4>1. l \in Lookups(seen \ {asking})
        BY <3>1, <3>3
      <4>2. PICK d \in seen : published[d] # NoPolicy /\ \E i \in DOMAIN published[d] : l = <<d, i>>
        BY <4>1, LookupMember
      <4>3. l[1] = d /\ l[2] \in DOMAIN published[d]
        BY <4>2
      <4>4. l[2] \in 1 .. Len(published[l[1]]) /\ Len(published[l[1]]) \in Nat
        <5>1. d \in Domains
          BY DEF TypeOK
        <5> QED
          BY <4>2, <4>3, <5>1, PolicyTypes
      <4>5. ASSUME NEW k \in DOMAIN stack, own[k] = l[1]
            PROVE  l[2] + Len(stack[k]) <= Len(published[l[1]])
        <5>1. CASE k = 1
          BY <3>2, <4>4, <5>1
        <5>2. CASE k # 1
          <6>1. k - 1 \in DOMAIN stack' /\ (k - 1) + 1 = k
            BY <1>2, <5>2
          <6>2. stack'[k - 1] = stack[k] /\ new[k - 1] = own[k]
            BY <1>2, <2>3, <6>1
          <6> QED
            BY <3>1, <3>3, <4>5, <6>1, <6>2
        <5> QED
          BY <5>1, <5>2
      <4> QED
        BY <4>1, <4>5 DEF Counted
    <3>4. ASSUME NEW l \in Counted(own) PROVE l \in Counted(new)'
      <4>1. l \in Lookups(seen \ {asking})
        BY <3>4 DEF Counted
      <4>2. ASSUME NEW k \in DOMAIN stack', new[k] = l[1]
            PROVE  l[2] + Len(stack'[k]) <= Len(published[l[1]])
        <5>1. k + 1 \in DOMAIN stack /\ stack'[k] = stack[k + 1] /\ own[k + 1] = l[1]
          BY <1>2, <2>3, <4>2
        <5> QED
          BY <3>4, <5>1 DEF Counted
      <4> QED
        BY <3>1, <4>1, <4>2
    <3> QED
      BY <3>3, <3>4
  <2> QED
    BY <1>1, <2>1, <2>3, <2>4, <2>5, Zenon
<1> QED
  BY <1>7, <1>8

(* A term that counts is one that was not counted before, and its target   *)
(* is among the domains seen afterwards.                                   *)
LEMMA TermCounts ==
  ASSUME TypeOK, Walk, Counts, Term
  PROVE  Counts'
<1> DEFINE term == Head(Head(stack))
           counted == total + (IF term.counts THEN 1 ELSE 0)
           asks == Follows(term) /\ ~Exceeds(counted)
<1>1. /\ phase = "walking" /\ ~exceeded /\ stack # <<>> /\ Head(stack) # <<>>
      /\ stack \in Seq(Seq(Terms)) /\ total \in Nat /\ total <= Limit /\ Limit \in Nat
      /\ asking = Nowhere /\ seen \subseteq Domains /\ Nowhere \notin Domains
  BY SpfAssumption DEF SpfAssumption, TypeOK, Walk, Term, Counts
<1>2. /\ stack' = Cons(Tail(Head(stack)), Tail(stack))
      /\ total' = counted /\ exceeded' = Exceeds(counted)
      /\ seen' = (IF asks THEN seen \cup {term.target} ELSE seen)
      /\ asking' = (IF asks THEN term.target ELSE Nowhere)
      /\ phase' = (IF asks THEN "asking" ELSE "walking")
      /\ published' = published
  BY DEF Term
<1>3. PICK own \in [DOMAIN stack -> Domains] :
        /\ Owns(own)
        /\ total = Cardinality(Counted(own))
        /\ \A l \in Counted(own) : published[l[1]][l[2]].target \in seen \cup {Nowhere}
  BY <1>1 DEF Counts
<1>4. /\ DOMAIN stack = 1 .. Len(stack) /\ Len(stack) \in Nat \ {0} /\ 1 \in DOMAIN stack
      /\ Head(stack) = stack[1] /\ stack[1] \in Seq(Terms) /\ stack[1] # <<>>
  BY <1>1, PoppedAt
<1>5. /\ DOMAIN stack[1] = 1 .. Len(stack[1]) /\ Len(stack[1]) \in Nat \ {0} /\ 1 \in DOMAIN stack[1]
      /\ term = stack[1][1] /\ term \in Terms
      /\ DOMAIN Tail(stack[1]) = 1 .. Len(stack[1]) - 1
      /\ \A i \in DOMAIN Tail(stack[1]) : i + 1 \in DOMAIN stack[1] /\ Tail(stack[1])[i] = stack[1][i + 1]
  BY <1>4, PoppedAt
<1>6. /\ Tail(stack[1]) \in Seq(Terms) /\ Len(Tail(stack[1])) = Len(stack[1]) - 1
      /\ Tail(stack) \in Seq(Seq(Terms)) /\ Len(Tail(stack)) = Len(stack) - 1
  BY <1>1, <1>4, Popped
<1>7. /\ DOMAIN stack' = DOMAIN stack
      /\ stack'[1] = Tail(stack[1])
      /\ \A k \in DOMAIN stack : k # 1 => stack'[k] = stack[k]
  <2> DEFINE rest == Tail(stack[1])
             outer == Tail(stack)
  <2>1. /\ rest \in Seq(Terms) /\ outer \in Seq(Seq(Terms)) /\ Len(outer) = Len(stack) - 1
        /\ stack' = Cons(rest, outer)
    BY <1>2, <1>4, <1>6
  <2>2. \A k \in DOMAIN outer : outer[k] = stack[k + 1]
    BY <1>1, PoppedAt
  <2> HIDE DEF rest, outer
  <2>3. /\ DOMAIN stack' = 1 .. Len(outer) + 1
        /\ stack'[1] = rest
        /\ \A k \in DOMAIN stack' : k # 1 => k - 1 \in DOMAIN outer /\ stack'[k] = outer[k - 1]
    BY <2>1, PushedAt
  <2>4. DOMAIN stack' = DOMAIN stack
    BY <1>4, <2>1, <2>3
  <2>5. ASSUME NEW k \in DOMAIN stack, k # 1 PROVE stack'[k] = stack[k]
    <3>1. k - 1 \in DOMAIN outer /\ stack'[k] = outer[k - 1] /\ (k - 1) + 1 = k
      BY <1>4, <2>3, <2>4, <2>5
    <3> QED
      BY <2>2, <3>1
  <2> QED
    BY <2>3, <2>4, <2>5 DEF rest
<1>8. PICK me \in Domains : me = own[1]
  BY <1>3, <1>4
<1>9. /\ me \in seen /\ published[me] # NoPolicy
      /\ published[me] \in Seq(Terms)
      /\ DOMAIN published[me] = 1 .. Len(published[me]) /\ Len(published[me]) \in Nat
      /\ Len(stack[1]) <= Len(published[me])
      /\ \A i \in DOMAIN stack[1] : stack[1][i] = published[me][Len(published[me]) - Len(stack[1]) + i]
  <2>1. /\ me \in seen /\ published[me] # NoPolicy
        /\ Len(stack[1]) <= Len(published[me])
        /\ \A i \in DOMAIN stack[1] : stack[1][i] = published[me][Len(published[me]) - Len(stack[1]) + i]
    BY <1>3, <1>4, <1>8 DEF Owns
  <2> QED
    BY <2>1, PolicyTypes
<1>k. PICK p \in Nat, q \in Nat : p = Len(published[me]) /\ q = Len(stack[1]) /\ 1 <= q /\ q <= p
  <2>1. 1 <= Len(stack[1]) /\ Len(stack[1]) \in Nat
    BY <1>5
  <2> QED
    BY <1>9, <2>1, Zenon
<1>10. PICK at \in Nat : at = p - q + 1 /\ at \in 1 .. p
  <2>1. p - q + 1 \in 1 .. p /\ p - q + 1 \in Nat
    <3> HIDE DEF term, counted
    <3>1. 1 <= q /\ q <= p
      BY <1>k, Zenon
    <3>2. p - q \in Nat /\ p - q + 1 <= p
      BY <3>1
    <3> QED
      BY <3>2
  <2> QED
    BY <2>1, Zenon
<1>11. at \in DOMAIN published[me] /\ term = published[me][at]
  BY <1>5, <1>9, <1>10, <1>k
<1>12. counted \in Nat /\ total <= counted /\ counted <= Limit + 1 /\ counted = total + (IF term.counts THEN 1 ELSE 0)
  BY <1>1
<1>13. term.counts \in BOOLEAN /\ term.target \in Domains \cup {Nowhere} /\ (term.target # Nowhere => term.counts)
  BY <1>5 DEF Terms
<1> HIDE DEF term, counted
<1>14. asks => term.target \in Domains \ seen
  BY <1>13 DEF Follows
<1>15. seen' \ {asking'} = seen /\ seen \ {asking} = seen /\ seen \subseteq seen' /\ seen' \subseteq Domains
  BY <1>1, <1>2, <1>14
<1>16. Owns(own)'
  <2>1. \A k, m \in DOMAIN stack' : own[k] = own[m] => k = m
    BY <1>3, <1>7 DEF Owns
  <2>2. ASSUME NEW k \in DOMAIN stack'
        PROVE  /\ own[k] \in seen' \ {asking'} /\ published'[own[k]] # NoPolicy
               /\ Len(stack'[k]) <= Len(published'[own[k]])
               /\ \A i \in DOMAIN stack'[k] :
                    stack'[k][i] = published'[own[k]][Len(published'[own[k]]) - Len(stack'[k]) + i]
    <3>1. CASE k = 1
      <4>1. stack'[k] = Tail(stack[1]) /\ own[k] = me /\ Len(stack'[k]) = Len(stack[1]) - 1
        BY <1>6, <1>7, <1>8, <3>1
      <4>2. ASSUME NEW i \in DOMAIN Tail(stack[1])
            PROVE  Tail(stack[1])[i] = published[me][Len(published[me]) - (Len(stack[1]) - 1) + i]
        <5>1. i + 1 \in DOMAIN stack[1] /\ Tail(stack[1])[i] = stack[1][i + 1] /\ i \in Nat
          BY <1>5
        <5>2. stack[1][i + 1] = published[me][Len(published[me]) - Len(stack[1]) + (i + 1)]
          BY <1>9, <5>1
        <5>3. Len(published[me]) - Len(stack[1]) + (i + 1) = Len(published[me]) - (Len(stack[1]) - 1) + i
          <6>1. p - q + (i + 1) = p - (q - 1) + i
            BY <5>1
          <6> QED
            BY <1>k, <6>1, Zenon
        <5> QED
          BY <5>1, <5>2, <5>3
      <4>3. Len(stack[1]) - 1 <= Len(published[me])
        BY <1>5, <1>9
      <4>4. \A i \in DOMAIN stack'[k] :
              stack'[k][i] = published'[own[k]][Len(published'[own[k]]) - Len(stack'[k]) + i]
        BY <1>2, <4>1, <4>2
      <4> QED
        BY <1>2, <1>9, <1>15, <4>1, <4>3, <4>4
    <3>2. CASE k # 1
      BY <1>2, <1>3, <1>7, <1>15, <3>2 DEF Owns
    <3> QED
      BY <3>1, <3>2
  <2> QED
    BY <2>1, <2>2 DEF Owns
<1>17. Counted(own)' = Counted(own) \cup (IF term.counts THEN {<<me, at>>} ELSE {})
  <2>1. Counted(own)' = {l \in Lookups(seen) : \A k \in DOMAIN stack :
                           own[k] = l[1] => l[2] + Len(stack'[k]) <= Len(published[l[1]])}
    <3>1. DOMAIN stack' = DOMAIN stack /\ seen' \ {asking'} = seen
      BY <1>7, <1>15, Zenon
    <3>2. Counted(own)' = {l \in Lookups(seen' \ {asking'}) : \A k \in DOMAIN stack' :
                             own[k] = l[1] => l[2] + Len(stack'[k]) <= Len(published[l[1]])}
      BY <1>2, CountedNext, Zenon
    <3> QED
      BY <3>1, <3>2
  <2>2. Counted(own) = {l \in Lookups(seen) : \A k \in DOMAIN stack :
                          own[k] = l[1] => l[2] + Len(stack[k]) <= Len(published[l[1]])}
    BY <1>15, Zenon DEF Counted
  <2>3. Len(stack'[1]) = Len(stack[1]) - 1
    BY <1>6, <1>7
  <2>4. ASSUME NEW l \in Lookups(seen)
        PROVE  /\ l = <<l[1], l[2]>> /\ l[2] \in DOMAIN published[l[1]] /\ l[1] \in seen
               /\ l[2] \in 1 .. Len(published[l[1]]) /\ Len(published[l[1]]) \in Nat
               /\ published[l[1]][l[2]].counts
    <3>1. PICK d \in seen : published[d] # NoPolicy
                            /\ \E i \in DOMAIN published[d] : l = <<d, i>> /\ published[d][i].counts
      BY <2>4, LookupMember
    <3>2. PICK i \in DOMAIN published[d] : l = <<d, i>> /\ published[d][i].counts
      BY <3>1
    <3>3. DOMAIN published[d] = 1 .. Len(published[d]) /\ Len(published[d]) \in Nat
      BY <1>1, <3>1, PolicyTypes
    <3> QED
      BY <3>2, <3>3
  <2>5. ASSUME NEW l \in Counted(own)' PROVE l \in Counted(own) \/ (term.counts /\ l = <<me, at>>)
    <3>1. l \in Lookups(seen)
      BY <2>1, <2>5
    <3>2. ASSUME NEW k \in DOMAIN stack, own[k] = l[1], l # <<me, at>>
          PROVE  l[2] + Len(stack[k]) <= Len(published[l[1]])
      <4>1. CASE k # 1
        BY <1>7, <2>1, <2>5, <3>2, <4>1
      <4>2. CASE k = 1
        <5>1. l[1] = me /\ l[2] + (Len(stack[1]) - 1) <= Len(published[me])
          BY <1>8, <2>1, <2>3, <2>5, <3>2, <4>2
        <5>2. l[2] # at
          BY <2>4, <3>1, <3>2, <5>1
        <5>3. l[2] \in Nat
          BY <2>4, <3>1
        <5> QED
          BY <1>10, <1>k, <4>2, <5>1, <5>2, <5>3
      <4> QED
        BY <4>1, <4>2
    <3>3. l # <<me, at>> => l \in Counted(own)
      BY <2>2, <3>1, <3>2
    <3>4. l = <<me, at>> => term.counts
      BY <1>11, <2>4, <3>1
    <3> QED
      BY <3>3, <3>4
  <2>6. ASSUME NEW l \in Counted(own) PROVE l \in Counted(own)'
    <3>1. l \in Lookups(seen)
      BY <2>2, <2>6
    <3>2. ASSUME NEW k \in DOMAIN stack, own[k] = l[1]
          PROVE  l[2] + Len(stack'[k]) <= Len(published[l[1]])
      <4>1. l[2] + Len(stack[k]) <= Len(published[l[1]])
        BY <2>2, <2>6, <3>2
      <4>2. CASE k # 1
        BY <1>7, <4>1, <4>2
      <4>3. CASE k = 1
        <5>1. l[2] \in Nat /\ Len(published[l[1]]) \in Nat
          BY <2>4, <3>1
        <5> QED
          BY <1>5, <2>3, <4>1, <4>3, <5>1
      <4> QED
        BY <4>2, <4>3
    <3> QED
      BY <2>1, <3>1, <3>2
  <2>7. term.counts => <<me, at>> \in Counted(own)'
    <3> SUFFICES ASSUME term.counts PROVE <<me, at>> \in Counted(own)'
      OBVIOUS
    <3>1. <<me, at>> \in Lookups(seen)
      <4>1. /\ me \in seen /\ published[me] # NoPolicy
            /\ at \in DOMAIN published[me] /\ published[me][at].counts
        BY <1>9, <1>11
      <4> QED
        BY <4>1, LookupMember
    <3>2. ASSUME NEW k \in DOMAIN stack, own[k] = me
          PROVE  at + Len(stack'[k]) <= Len(published[me])
      <4>1. k = 1
        BY <1>3, <1>4, <1>8, <3>2 DEF Owns
      <4>2. at + (q - 1) <= p
        BY <1>10
      <4> QED
        BY <1>k, <2>3, <4>1, <4>2, Zenon
    <3> QED
      BY <2>1, <3>1, <3>2
  <2>8. Counted(own)' \subseteq Counted(own) \cup (IF term.counts THEN {<<me, at>>} ELSE {})
    BY <2>5
  <2>9. Counted(own) \cup (IF term.counts THEN {<<me, at>>} ELSE {}) \subseteq Counted(own)'
    BY <2>6, <2>7
  <2> QED
    BY <2>8, <2>9
<1>18. total' = Cardinality(Counted(own)')
  <2>1. <<me, at>> \notin Counted(own)
    <3> SUFFICES ASSUME <<me, at>> \in Counted(own) PROVE FALSE
      OBVIOUS
    <3>1. at + Len(stack[1]) <= Len(published[me])
      BY <1>4, <1>8 DEF Counted
    <3> QED
      BY <1>10, <1>k, <3>1
  <2>2. IsFiniteSet(Counted(own))
    <3>1. Counted(own) \subseteq Lookups(seen)
      BY <1>15 DEF Counted
    <3> QED
      BY <1>1, <3>1, LookupsGrow
  <2>3. Cardinality(Counted(own) \cup {<<me, at>>}) = Cardinality(Counted(own)) + 1
    BY <2>1, <2>2, FS_AddElement
  <2> QED
    <3>1. CASE term.counts
      BY <1>2, <1>3, <1>12, <1>17, <2>3, <3>1
    <3>2. CASE ~term.counts
      BY <1>2, <1>3, <1>12, <1>17, <3>2, <1>1
    <3> QED
      BY <3>1, <3>2
<1>19. \A l \in Counted(own)' : published'[l[1]][l[2]].target \in seen' \cup {Nowhere} \/ exceeded'
  <2>1. \A l \in Counted(own) : published'[l[1]][l[2]].target \in seen' \cup {Nowhere}
    BY <1>2, <1>3, <1>15
  <2>2. published'[me][at].target \in seen' \cup {Nowhere} \/ exceeded'
    <3>1. published'[me][at] = term
      BY <1>2, <1>11
    <3>2. Follows(term) /\ ~exceeded' => term.target \in seen'
      BY <1>2
    <3>3. ~Follows(term) => term.target \in seen' \cup {Nowhere}
      BY <1>15 DEF Follows
    <3> QED
      BY <3>1, <3>2, <3>3
  <2>3. <<me, at>>[1] = me /\ <<me, at>>[2] = at
    OBVIOUS
  <2> QED
    BY <1>17, <2>1, <2>2, <2>3
<1>20. exceeded' => total' = Limit + 1 /\ Cardinality(Lookups(seen)') > Limit
  <2> SUFFICES ASSUME exceeded' PROVE total' = Limit + 1 /\ Cardinality(Lookups(seen)') > Limit
    OBVIOUS
  <2>1. counted > Limit /\ seen' = seen
    BY <1>2 DEF Exceeds
  <2>2. total' = Limit + 1
    BY <1>1, <1>2, <1>12, <2>1
  <2>3. Counted(own)' \subseteq Lookups(seen) /\ Lookups(seen)' = Lookups(seen)
    BY <1>2, <1>15, <2>1, CountedNext, LookupsNext
  <2>4. Cardinality(Counted(own)') <= Cardinality(Lookups(seen)) /\ Cardinality(Lookups(seen)) \in Nat
    BY <1>1, <2>3, LookupsGrow
  <2> QED
    BY <1>1, <1>18, <2>2, <2>3, <2>4
<1>21. \A R \in SUBSET Domains : IncludesWithin(R)' => seen' \subseteq R
  <2> SUFFICES ASSUME NEW R \in SUBSET Domains, IncludesWithin(R)' PROVE seen' \subseteq R
    OBVIOUS
  <2>1. IncludesWithin(R)
    BY <1>2 DEF IncludesWithin, Includes
  <2>2. seen \subseteq R
    BY <2>1 DEF Counts
  <2>3. Includes(me) \subseteq R
    BY <1>9, <2>1, <2>2 DEF IncludesWithin
  <2>4. asks => term.target \in Includes(me)
    BY <1>9, <1>11 DEF Includes, Follows
  <2> QED
    BY <1>2, <2>2, <2>3, <2>4
<1>22. /\ Root \in seen' /\ phase' # "answered"
       /\ IF phase' = "asking" THEN ~exceeded' /\ asking' \in seen' ELSE asking' = Nowhere
  <2>1. Root \in seen
    BY DEF Counts
  <2> QED
    BY <1>2, <2>1
<1> QED
  <2>1. ~exceeded' => \A l \in Counted(own)' : published'[l[1]][l[2]].target \in seen' \cup {Nowhere}
    BY <1>19
  <2>2. own \in [DOMAIN stack' -> Domains]
    BY <1>3, <1>7
  <2> QED
    BY <1>16, <1>18, <1>20, <1>21, <1>22, <2>1, <2>2 DEF Counts

LEMMA StepCounts ==
  ASSUME TypeOK, Walk, Counts, Step
  PROVE  Counts'
  BY ArrivesCounts, FailsCounts, ReturnCounts, TermCounts DEF Step

-----------------------------------------------------------------------------
(* The steps of the report *)

(* Whatever was rolled up stays what it was: the walk is over. *)
LEMMA GivenInv ==
  ASSUME Inv, [EmailNext]_emailVars
  PROVE  Given'
<1> USE DEF Inv, Given
<1>1. CASE SpfSteps
  <2>1. phase \notin {"answered", "no record"}
    BY <1>1 DEF SpfSteps, Step, TxtArrives, TxtFails, ReturnFromWalk, Term
  <2> QED
    BY <1>1, <2>1 DEF SpfSteps
<1>2. ASSUME NEW l \in Legs, Settles(l) PROVE Given'
  <2>1. settled # Legs
    BY <1>2 DEF Settles
  <2> QED
    BY <1>2, <2>1 DEF Settles
<1>3. CASE Rejects
  BY <1>3 DEF Rejects
<1>4. CASE Reports
  BY <1>4 DEF Reports, vars, Rejected, Rollup, withinLimit
<1>5. CASE UNCHANGED emailVars
  BY <1>5 DEF emailVars, vars, Rejected, Rollup, withinLimit
<1> QED
  BY <1>1, <1>2, <1>3, <1>4, <1>5 DEF EmailNext

LEMMA NextInv == Inv /\ [EmailNext]_emailVars => Inv'
<1> SUFFICES ASSUME Inv, [EmailNext]_emailVars PROVE Inv'
  OBVIOUS
<1>1. (TypeOK /\ Known /\ Walk /\ RootPolicy)'
  <2>1. CASE Step
    BY <2>1, StepInv DEF Inv
  <2>2. CASE UNCHANGED vars
    BY <2>2 DEF vars, Inv, TypeOK, Known, Walk, Asking, RootPolicy
  <2> QED
    BY <2>1, <2>2 DEF EmailNext, SpfSteps, Settles, Rejects, Reports, emailVars
<1>2. Counts'
  <2>1. CASE Step
    BY <2>1, StepCounts DEF Inv
  <2>2. CASE UNCHANGED vars
    <3>1. Counts
      BY DEF Inv
    <3>2. \A own : Counted(own)' = Counted(own) /\ (Owns(own)' <=> Owns(own))
      <4>1. stack' = stack /\ seen' = seen /\ asking' = asking /\ published' = published
        BY <2>2 DEF vars
      <4>2. ASSUME NEW own PROVE Counted(own)' = Counted(own)
        <5>1. Counted(own)' = {l \in Lookups(seen' \ {asking'}) : \A k \in DOMAIN stack' :
                                 own[k] = l[1] => l[2] + Len(stack'[k]) <= Len(published[l[1]])}
          BY <4>1, CountedNext
        <5> QED
          BY <4>1, <5>1 DEF Counted
      <4>3. \A own : Owns(own)' <=> Owns(own)
        BY <4>1 DEF Owns
      <4> QED
        BY <4>2, <4>3
    <3>3. \A R : IncludesWithin(R)' <=> IncludesWithin(R)
      BY <2>2 DEF vars, IncludesWithin, Includes
    <3>4. Lookups(seen)' = Lookups(seen)
      BY <2>2, LookupsNext DEF vars
    <3> QED
      BY <2>2, <3>1, <3>2, <3>3, <3>4 DEF vars, Counts
  <2> QED
    BY <2>1, <2>2 DEF EmailNext, SpfSteps, Settles, Rejects, Reports, emailVars
<1> QED
  BY <1>1, <1>2, GivenInv DEF Inv

THEOREM Invariance == EmailSpec => []Inv
  BY InitInv, NextInv, PTL DEF EmailSpec

-----------------------------------------------------------------------------
(* The variables of analyzeSpf keep their types; the count goes no further *)
(* than one past the limit, whatever policies there are.                   *)
THEOREM Typing == EmailSpec => []TypeOK
  BY Invariance, PTL DEF Inv

(* For any domains that include each other in any way, the walk sends at   *)
(* most one query more than the limit, none twice, and its recursion is no *)
(* deeper than the domains it has seen.                                    *)
THEOREM Bounded == EmailSpec => []QueriesAreBounded
<1>1. Inv => QueriesAreBounded
  <2> SUFFICES ASSUME Inv PROVE QueriesAreBounded
    OBVIOUS
  <2>1. Len(stack) \in Nat /\ Len(asked) \in Nat
    BY Types DEF Inv
  <2>2. Len(stack) <= Cardinality(seen)
    BY <2>1 DEF Inv, Known, Walk, Asking
  <2> QED
    BY <2>2 DEF Inv, Known, Walk, QueriesAreBounded
<1> QED
  BY <1>1, Invariance, PTL

(* No report blames a domain for a lookup that failed: what it calls       *)
(* absent the answers called absent, for any answers whatever.             *)
THEOREM NoBlame == EmailSpec => []AbsenceIsNotFailure
<1>1. Inv => AbsenceIsNotFailure
  <2> SUFFICES ASSUME Inv, report = "given" PROVE
        /\ Failed \notin {answers.mx, answers.dmarc}
        /\ "no MX" \in warnings => answers.mx = <<>>
        /\ "no SPF" \in warnings <=> published[Root] = NoPolicy
        /\ "no DMARC" \in warnings => ToSet(answers.dmarc) \subseteq {"unrelated"}
    BY DEF AbsenceIsNotFailure
  <2>1. settled = Legs /\ Rejected = {} /\ warnings = Rollup /\ phase \in {"answered", "no record"}
    BY DEF Inv, Given
  <2>2. Failed \notin {answers.mx, answers.dmarc}
    BY <2>1 DEF Rejected, Legs
  <2>3. "no MX" \in warnings => answers.mx = <<>>
    BY <2>1 DEF Rollup
  <2>4. "no SPF" \in warnings <=> published[Root] = NoPolicy
    BY <2>1 DEF Rollup, Inv, RootPolicy
  <2>5. "no DMARC" \in warnings => ToSet(answers.dmarc) \subseteq {"unrelated"}
    BY <2>1 DEF Rollup, DmarcRecords, ToSet
  <2> QED
    BY <2>2, <2>3, <2>4, <2>5
<1> QED
  BY <1>1, Invariance, PTL

-----------------------------------------------------------------------------
(* The verdict *)

(* The least set closed under includes is the meet of them all. *)
LEMMA ReachedIsLeast ==
  ASSUME TypeOK
  PROVE  /\ Reached \in SUBSET Domains /\ IncludesWithin(Reached)
         /\ \A other \in SUBSET Domains : IncludesWithin(other) => Reached \subseteq other
<1> DEFINE meet == {d \in Domains : \A R \in SUBSET Domains : IncludesWithin(R) => d \in R}
<1>1. \A d \in Domains : Includes(d) \subseteq Domains
  <2> SUFFICES ASSUME NEW d \in Domains, published[d] # NoPolicy PROVE Includes(d) \subseteq Domains
    BY DEF Includes
  <2>1. \A i \in DOMAIN published[d] : published[d][i] \in Terms
    BY PolicyTypes
  <2> QED
    BY <2>1 DEF Includes, Terms
<1>2. IncludesWithin(meet)
  <2>1. Root \in meet
    BY SpfAssumption DEF SpfAssumption, IncludesWithin
  <2>2. ASSUME NEW d \in meet, NEW e \in Includes(d) PROVE e \in meet
    BY <1>1, <2>2 DEF IncludesWithin
  <2> QED
    BY <2>1, <2>2 DEF IncludesWithin
<1>3. meet \in SUBSET Domains /\ \A other \in SUBSET Domains : IncludesWithin(other) => meet \subseteq other
  OBVIOUS
<1> HIDE DEF meet
<1> QED
  BY <1>2, <1>3, Zenon DEF Reached

LEMMA Verdict ==
  ASSUME TypeOK, Walk, Counts
  PROVE  VerdictIsThatOfAllPolicies
<1> SUFFICES ASSUME phase = "answered"
             PROVE  /\ withinLimit <=> Cardinality(Lookups(Reached)) <= Limit
                    /\ withinLimit => total = Cardinality(Lookups(Reached))
  BY DEF VerdictIsThatOfAllPolicies
<1>1. stack = <<>> /\ asking = Nowhere /\ seen \in SUBSET Domains /\ Nowhere \notin Domains /\ Limit \in Nat
  BY SpfAssumption DEF SpfAssumption, Counts, TypeOK
<1>2. seen \subseteq Reached
  BY ReachedIsLeast DEF Counts
<1>3. CASE exceeded
  <2>1. total = Limit + 1 /\ Cardinality(Lookups(seen)) > Limit
    BY <1>3 DEF Counts
  <2>2. Lookups(seen) \subseteq Lookups(Reached)
    BY <1>2, LookupMember
  <2>3. /\ Cardinality(Lookups(seen)) <= Cardinality(Lookups(Reached))
        /\ Cardinality(Lookups(seen)) \in Nat /\ Cardinality(Lookups(Reached)) \in Nat
    BY <1>1, <2>2, ReachedIsLeast, LookupsGrow
  <2> QED
    BY <1>1, <2>1, <2>3 DEF withinLimit
<1>4. CASE ~exceeded
  <2>1. PICK own \in [DOMAIN stack -> Domains] :
          /\ total = Cardinality(Counted(own))
          /\ \A l \in Counted(own) : published[l[1]][l[2]].target \in seen \cup {Nowhere}
    BY <1>4 DEF Counts
  <2>2. Counted(own) = Lookups(seen)
    <3>1. DOMAIN stack = {} /\ seen \ {asking} = seen
      BY <1>1
    <3> QED
      BY <3>1 DEF Counted
  <2>3. IncludesWithin(seen)
    <3>1. ASSUME NEW d \in seen, NEW e \in Includes(d) PROVE e \in seen
      <4>1. published[d] # NoPolicy /\ e # Nowhere
        BY <3>1 DEF Includes
      <4>2. PICK i \in DOMAIN published[d] : published[d][i].target = e
        BY <3>1 DEF Includes
      <4>3. published[d][i] \in Terms
        BY <1>1, <4>1, PolicyTypes
      <4>4. published[d][i].counts
        BY <4>1, <4>2, <4>3 DEF Terms
      <4>5. <<d, i>> \in Lookups(seen)
        BY <4>1, <4>4, LookupMember
      <4>6. <<d, i>>[1] = d /\ <<d, i>>[2] = i
        OBVIOUS
      <4>7. published[d][i].target \in seen \cup {Nowhere}
        BY <2>1, <2>2, <4>5, <4>6
      <4> QED
        BY <4>1, <4>2, <4>7
    <3> QED
      BY <3>1 DEF IncludesWithin, Counts
  <2>4. seen = Reached
    BY <1>1, <1>2, <2>3, ReachedIsLeast
  <2>5. total <= Limit
    BY <1>4 DEF Walk
  <2> QED
    BY <2>1, <2>2, <2>4, <2>5 DEF withinLimit
<1> QED
  BY <1>3, <1>4

(* For any policies that include each other in any way, and any limit, the *)
(* walk that stops at what it has seen and at the limit gives the verdict  *)
(* of all the policies that apply, each of their terms counted once.       *)
THEOREM VerdictOfAll == EmailSpec => []VerdictIsThatOfAllPolicies
  BY Invariance, Verdict, PTL DEF Inv

(* The order of the natural numbers is well-founded ... *)
LEMMA LessIsWellFounded ==
  \E R : IsWellFoundedOn(R, Nat) /\ \A x, y \in Nat : x < y => <<x, y>> \in R
<1> DEFINE R == OpToRel(<, Nat)
<1>1. IsWellFoundedOn(R, Nat)
  BY NatLessThanWellFounded
<1>2. \A x, y \in Nat : x < y => <<x, y>> \in R
  BY DEF OpToRel
<1> HIDE DEF R
<1> QED
  BY <1>1, <1>2

(* ... so what holds of some number holds of a least one. *)
LEMMA LeastNatural ==
  ASSUME NEW S \in SUBSET Nat, S # {}
  PROVE  \E m \in S : \A k \in S : m <= k
<1>1. PICK R : IsWellFoundedOn(R, Nat) /\ \A x, y \in Nat : x < y => <<x, y>> \in R
  BY LessIsWellFounded
<1>2. IsWellFoundedOn(R, Nat) /\ S \subseteq Nat /\ S # {}
  BY <1>1
<1>3. \E x \in S : \A y \in S : ~(<<y, x>> \in R)
  <2>1. IsWellFoundedOn(R, Nat)
    BY <1>2
  <2>2. S \subseteq Nat /\ S # {}
    BY <1>2
  <2> QED
    BY <2>1, <2>2, WFMin
<1>4. PICK m \in S : \A k \in S : ~(<<k, m>> \in R)
  BY <1>3
<1>5. \A k \in S : ~(k < m)
  BY <1>1, <1>4
<1> QED
  BY <1>4, <1>5

(* A report without warnings is that of a domain whose mail is configured: *)
(* the MX, SPF, DMARC and MTA-STS records that the warnings speak of.      *)
THEOREM QuietReport == EmailSpec => []QuietReportMeansConfigured
<1>1. Inv => QuietReportMeansConfigured
  <2> SUFFICES ASSUME Inv, report = "given", warnings = {} PROVE
        /\ answers.mx # <<>>
        /\ published[Root] # NoPolicy
        /\ Cardinality(Lookups(Reached)) <= Limit
        /\ \E i \in DOMAIN answers.dmarc :
             /\ answers.dmarc[i] \notin {"unrelated", "p=none"}
             /\ \A j \in 1 .. i - 1 : answers.dmarc[j] = "unrelated"
        /\ answers.sts # Failed /\ "id" \in ToSet(answers.sts)
        /\ answers.policy \in {"enforce", "testing"}
    BY DEF QuietReportMeansConfigured
  <2>1. /\ settled = Legs /\ Rejected = {} /\ Rollup = {}
        /\ phase \in {"answered", "no record"} /\ answers \in Answers
    BY DEF Inv, Given
  <2>2. answers.mx # <<>>
    BY <2>1 DEF Rollup
  <2>3. phase = "answered" /\ withinLimit
    BY <2>1 DEF Rollup
  <2>4. published[Root] # NoPolicy
    BY <2>3 DEF Inv, RootPolicy
  <2>5. Cardinality(Lookups(Reached)) <= Limit
    BY <2>3, Verdict DEF Inv, VerdictIsThatOfAllPolicies
  <2>6. configured(answers)
    BY <2>1 DEF Rollup
  <2>7. \E i \in DOMAIN answers.dmarc :
          /\ answers.dmarc[i] \notin {"unrelated", "p=none"}
          /\ \A j \in 1 .. i - 1 : answers.dmarc[j] = "unrelated"
    <3> DEFINE texts == answers.dmarc
               records == DmarcRecords(texts)
    <3>1. texts \in Seq(DmarcTexts)
      <4>1. texts # Failed
        BY <2>1 DEF Rejected, Legs
      <4> QED
        BY <2>1, <4>1 DEF Answers
    <3>2. records # {} /\ DmarcPolicy(texts) # "p=none"
      BY <2>1 DEF Rollup
    <3> HIDE DEF texts
    <3>3. DOMAIN texts = 1 .. Len(texts) /\ Len(texts) \in Nat
      BY <3>1
    <3>4. records \subseteq DOMAIN texts /\ records \in SUBSET Nat
      BY <3>3 DEF DmarcRecords
    <3>5. \E i \in records : \A j \in records : i <= j
      <4> HIDE DEF records
      <4> QED
        BY <3>2, <3>4, LeastNatural
    <3>6. PICK i \in records : i = (CHOOSE k \in records : \A j \in records : k <= j) /\ \A j \in records : i <= j
      <4> HIDE DEF records
      <4> QED
        BY <3>5, Zenon
    <3>7. texts[i] # "p=none" /\ texts[i] # "unrelated"
      BY <3>2, <3>6 DEF DmarcPolicy, DmarcRecords
    <3>8. ASSUME NEW j \in 1 .. i - 1 PROVE texts[j] = "unrelated"
      <4>1. j \in DOMAIN texts /\ ~(i <= j)
        BY <3>3, <3>4
      <4>2. j \notin records
        BY <3>6, <4>1
      <4> QED
        BY <4>1, <4>2 DEF DmarcRecords
    <3> QED
      BY <3>4, <3>7, <3>8 DEF texts
  <2> QED
    BY <2>2, <2>4, <2>5, <2>6, <2>7 DEF configured, parseStsId, parseMtaStsPolicy
<1> QED
  BY <1>1, Invariance, PTL

=============================================================================

------------------------ MODULE ParallelTools_proofs ------------------------
(***************************************************************************)
(* What dohQuery and the tools that join several queries guarantee for     *)
(* every set of calls and resolvers, every chain, every number of names,   *)
(* every timeout and however often the views of the resolvers change.      *)
(***************************************************************************)
EXTENDS ParallelTools, FiniteSetTheorems, WellFoundedInduction, TLAPS

-----------------------------------------------------------------------------
(* dohQuery, on its own *)

(* An attempt in flight is one of the chain, its deadline has not passed,  *)
(* and deadlines lie no further apart than the timeout: what SettlesInTime *)
(* needs to be inductive.                                                  *)
AttemptsInTime ==
  \A c \in Calls : InFlight(c) =>
    /\ pos[c] \in 1 .. Len(Chain(c))
    /\ now <= deadline[c]
    /\ deadline[c] <= startedAt[c] + pos[c] * Timeout(c)

(* A call that is not yet made has tried no resolver. *)
IdleAtHead == \A c \in Calls : phase[c] = "idle" => pos[c] = 0

DohInv ==
  /\ DohTypeOK
  /\ AttemptsInTime
  /\ IdleAtHead
  /\ PassedOverAreDown
  /\ ToolErrorAfterWholeChain

-----------------------------------------------------------------------------

(* Whatever options a call has, its chain is a sequence of resolvers and   *)
(* its timeout a positive number.                                          *)
LEMMA OptionsType ==
  \A c \in Calls : Chain(c) \in Seq(Resolvers) /\ Timeout(c) \in Nat \ {0}
  BY DohAssumption DEF DohAssumption, Options, Chain, Timeout

(* Sums of times are compared apart from the products in them. *)
LEMMA InBetween ==
  ASSUME NEW t \in Nat, NEW d \in Nat, NEW b \in Nat, NEW p \in Nat, NEW q \in Nat,
         d <= b + p, p <= q
  PROVE  d <= b + q /\ (t <= d => t <= b + p) /\ (t <= b + p => t + q <= b + (p + q))
  OBVIOUS

(* Budgets grow with the number of attempts. *)
LEMMA BudgetGrows ==
  ASSUME NEW i \in Nat, NEW n \in Nat, NEW t \in Nat, i <= n
  PROVE  i * t \in Nat /\ i * t <= n * t /\ (i + 1) * t = i * t + t
  <1>1. i * t \in Nat /\ n * t \in Nat
    OBVIOUS
  <1>2. PICK d \in Nat : n = i + d
    <2>1. n - i \in Nat /\ n = i + (n - i)
      OBVIOUS
    <2>2. QED
      BY <2>1
  <1>3. n * t = i * t + d * t /\ d * t \in Nat
    BY <1>2
  <1>4. QED
    BY <1>1, <1>3

LEMMA DohTypingStep == DohTypeOK /\ [DohNext]_dohVars => DohTypeOK'
  <1> SUFFICES ASSUME DohTypeOK, [DohNext]_dohVars
               PROVE  DohTypeOK'
    OBVIOUS
  <1> USE DEF DohTypeOK, ToolErrors, NoError
  <1>1. ASSUME NEW C \in SUBSET Calls, Begin(C)
        PROVE  DohTypeOK'
    BY <1>1, OptionsType DEF Begin, Thrown, Fetches
  <1>2. ASSUME NEW c \in Calls, AttemptFails(c)
        PROVE  DohTypeOK'
    <2>1. PICK why \in ToolErrors : TryNext(c, why)
      BY <1>2 DEF AttemptFails
    <2>2. pos[c] + 1 \in Nat /\ now + Timeout(c) \in Nat /\ Thrown(why) \in ToolErrors
      BY OptionsType DEF Thrown
    <2> UNCHANGED <<up, now, startedAt>>
      BY <1>2 DEF AttemptFails
    <2>3. CASE pos[c] < Len(Chain(c))
      BY <2>1, <2>2, <2>3 DEF TryNext, FetchFrom
    <2>4. CASE ~(pos[c] < Len(Chain(c)))
      <3>1. Settle(c, "rejected", Thrown(why))
        BY <2>1, <2>4 DEF TryNext, Reject
      <3>2. phase' = [phase EXCEPT ![c] = "rejected"] /\ lastErr' = [lastErr EXCEPT ![c] = Thrown(why)]
        BY <3>1 DEF Settle
      <3>3. deadline' = [deadline EXCEPT ![c] = 0] /\ pos' = pos
        BY <3>1 DEF Settle
      <3>4. QED
        BY <2>2, <3>2, <3>3
    <2>5. QED
      BY <2>3, <2>4
  <1>3. ASSUME NEW c \in Calls, HeadersArrive(c)
        PROVE  DohTypeOK'
    BY <1>3 DEF HeadersArrive
  <1>4. ASSUME NEW c \in Calls, BodyDecodes(c)
        PROVE  DohTypeOK'
    BY <1>4 DEF BodyDecodes, Settle
  <1>5. ASSUME NEW c \in Calls, BodyFails(c)
        PROVE  DohTypeOK'
    BY <1>5 DEF BodyFails, Reject, Settle
  <1>6. CASE Tick
    BY <1>6 DEF Tick
  <1>7. CASE UNCHANGED dohVars
    BY <1>7 DEF dohVars
  <1>8. QED
    BY <1>1, <1>2, <1>3, <1>4, <1>5, <1>6, <1>7 DEF DohNext, Attempt

(* In every behaviour of dohQuery's calls the variables keep their types:  *)
(* in particular a promise is rejected only with a ToolError of one of the *)
(* two codes or with a raw error.                                          *)
THEOREM DohTyping == DohSpec => []DohTypeOK
  <1>1. DohInit => DohTypeOK
    BY DEF DohInit, DohTypeOK, NoError
  <1>2. QED
    BY <1>1, DohTypingStep, PTL DEF DohSpec

-----------------------------------------------------------------------------

LEMMA DohInvStep == DohInv /\ [DohNext]_dohVars => DohInv'
  <1> SUFFICES ASSUME DohInv, [DohNext]_dohVars
               PROVE  DohInv'
    OBVIOUS
  <1> USE DEF DohInv
  <1>1. DohTypeOK /\ DohTypeOK'
    BY DohTypingStep
  <1>2. /\ \A c \in Calls : /\ Len(Chain(c)) \in Nat /\ Timeout(c) \in Nat \ {0}
                            /\ pos[c] \in Nat /\ startedAt[c] \in Nat
                            /\ deadline[c] \in Nat
        /\ now \in Nat
    BY <1>1, OptionsType DEF DohTypeOK
  <1>3. ASSUME NEW C \in SUBSET Calls, Begin(C)
        PROVE  AttemptsInTime' /\ IdleAtHead' /\ PassedOverAreDown' /\ ToolErrorAfterWholeChain'
    <2>1. \A c \in Calls : c \in C => pos[c] = 0 /\ phase[c] = "idle"
      BY <1>3 DEF Begin, IdleAtHead
    <2>2. \A c \in Calls : Chain(c) # <<>> => Len(Chain(c)) >= 1
      BY OptionsType
    <2>3. \A c \in Calls : Chain(c) = <<>> => Len(Chain(c)) = 0
      OBVIOUS
    <2>4. AttemptsInTime'
      BY <1>1, <1>2, <1>3, <2>1, <2>2 DEF Begin, AttemptsInTime, InFlight, Fetches, DohTypeOK
    <2>5. IdleAtHead'
      BY <1>1, <1>3, <2>1 DEF Begin, IdleAtHead, Fetches, DohTypeOK
    <2>6. PassedOverAreDown'
      BY <1>1, <1>2, <1>3, <2>1 DEF Begin, PassedOverAreDown, Fetches, DohTypeOK
    <2>7. ToolErrorAfterWholeChain'
      BY <1>1, <1>2, <1>3, <2>1, <2>3
      DEF Begin, ToolErrorAfterWholeChain, Fetches, DohTypeOK, ToolErrors, Thrown, NoError
    <2>8. QED
      BY <2>4, <2>5, <2>6, <2>7
  <1>4. ASSUME NEW c \in Calls, AttemptFails(c)
        PROVE  AttemptsInTime' /\ IdleAtHead' /\ PassedOverAreDown' /\ ToolErrorAfterWholeChain'
    <2>1. PICK why \in ToolErrors : TryNext(c, why)
      BY <1>4 DEF AttemptFails
    <2>2. /\ phase[c] = "headers" /\ Chain(c)[pos[c]] \notin up
          /\ UNCHANGED <<up, now, startedAt>>
          /\ pos[c] \in 1 .. Len(Chain(c)) /\ now <= deadline[c]
          /\ deadline[c] <= startedAt[c] + pos[c] * Timeout(c)
      BY <1>4 DEF AttemptFails, Current, AttemptsInTime, InFlight
    <2>3. pos[c] * Timeout(c) \in Nat /\ (pos[c] + 1) * Timeout(c) = pos[c] * Timeout(c) + Timeout(c)
      BY <1>2, BudgetGrows
    <2>4. CASE pos[c] < Len(Chain(c))
      <3>1. FetchFrom(c, pos[c] + 1, why)
        BY <2>1, <2>4 DEF TryNext
      <3>2. now + Timeout(c) <= startedAt[c] + (pos[c] + 1) * Timeout(c)
        <4> DEFINE spent == pos[c] * Timeout(c)
        <4>1. /\ spent \in Nat /\ Timeout(c) \in Nat
              /\ deadline[c] <= startedAt[c] + spent
              /\ (pos[c] + 1) * Timeout(c) = spent + Timeout(c)
          BY <1>2, <2>2, <2>3, Zenon
        <4>2. /\ now \in Nat /\ deadline[c] \in Nat /\ startedAt[c] \in Nat
              /\ now <= deadline[c]
          BY <1>1, <2>2 DEF DohTypeOK
        <4> HIDE DEF spent
        <4>3. now + Timeout(c) <= startedAt[c] + (spent + Timeout(c))
          BY <4>1, <4>2
        <4>4. QED
          BY <4>1, <4>3, Zenon
      <3>3. AttemptsInTime'
        BY <1>1, <1>2, <2>2, <2>4, <3>1, <3>2, SMTT(30)
        DEF FetchFrom, AttemptsInTime, InFlight, DohTypeOK
      <3>4. IdleAtHead' /\ ToolErrorAfterWholeChain'
        BY <1>1, <1>2, <2>2, <3>1
        DEF FetchFrom, IdleAtHead, ToolErrorAfterWholeChain, DohTypeOK
      <3>5. PassedOverAreDown'
        BY <1>1, <1>2, <2>2, <3>1 DEF FetchFrom, PassedOverAreDown, DohTypeOK
      <3>6. QED
        BY <3>3, <3>4, <3>5
    <2>5. CASE ~(pos[c] < Len(Chain(c)))
      <3>1. Reject(c, Thrown(why)) /\ pos[c] = Len(Chain(c))
        BY <1>2, <2>1, <2>2, <2>5 DEF TryNext
      <3>2. AttemptsInTime' /\ IdleAtHead'
        BY <1>1, <1>2, <2>2, <3>1
        DEF Reject, Settle, AttemptsInTime, IdleAtHead, InFlight, DohTypeOK
      <3>3. PassedOverAreDown'
        BY <1>1, <2>2, <3>1 DEF Reject, Settle, PassedOverAreDown, DohTypeOK
      <3>4. \A i \in 1 .. Len(Chain(c)) : Chain(c)[i] \notin up
        BY <1>2, <2>2, <3>1 DEF PassedOverAreDown
      <3>5. ToolErrorAfterWholeChain'
        BY <1>1, <1>2, <2>2, <3>1, <3>4 DEF Reject, Settle, ToolErrorAfterWholeChain, DohTypeOK
      <3>6. QED
        BY <3>2, <3>3, <3>5
    <2>6. QED
      BY <2>4, <2>5
  <1>5. ASSUME NEW c \in Calls, HeadersArrive(c) \/ BodyDecodes(c) \/ BodyFails(c)
        PROVE  AttemptsInTime' /\ IdleAtHead' /\ PassedOverAreDown' /\ ToolErrorAfterWholeChain'
    <2>1. UNCHANGED <<up, now, startedAt, pos>>
      BY <1>5 DEF HeadersArrive, BodyDecodes, BodyFails, Reject, Settle
    <2>2. AttemptsInTime' /\ IdleAtHead'
      BY <1>1, <1>2, <1>5, <2>1
      DEF HeadersArrive, BodyDecodes, BodyFails, Reject, Settle, AttemptsInTime, IdleAtHead,
          InFlight, DohTypeOK
    <2>3. PassedOverAreDown'
      BY <2>1 DEF PassedOverAreDown
    <2>4. ToolErrorAfterWholeChain'
      BY <1>1, <1>5, <2>1
      DEF HeadersArrive, BodyDecodes, BodyFails, Reject, Settle, ToolErrorAfterWholeChain,
          ToolErrors, NoError, DohTypeOK
    <2>5. QED
      BY <2>2, <2>3, <2>4
  <1>6. CASE Tick
    <2>1. AttemptsInTime'
      BY <1>1, <1>2, <1>6 DEF Tick, AttemptsInTime, InFlight, DohTypeOK
    <2>2. IdleAtHead' /\ PassedOverAreDown' /\ ToolErrorAfterWholeChain'
      BY <1>6 DEF Tick, IdleAtHead, PassedOverAreDown, ToolErrorAfterWholeChain
    <2>3. QED
      BY <1>1, <2>1, <2>2
  <1>7. CASE UNCHANGED dohVars
    BY <1>1, <1>7
    DEF dohVars, AttemptsInTime, IdleAtHead, PassedOverAreDown, ToolErrorAfterWholeChain, InFlight
  <1>8. QED
    BY <1>1, <1>3, <1>4, <1>5, <1>6, <1>7 DEF DohNext, Attempt

LEMMA DohInvariance == DohSpec => []DohInv
  <1>1. DohInit => DohInv
    BY DEF DohInit, DohInv, DohTypeOK, AttemptsInTime, IdleAtHead, PassedOverAreDown,
           ToolErrorAfterWholeChain, InFlight, NoError
  <1>2. QED
    BY <1>1, DohInvStep, PTL DEF DohSpec

(* The fallback passes over no resolver that works ... *)
THEOREM PassedOver == DohSpec => []PassedOverAreDown
  BY DohInvariance, PTL DEF DohInv

(* ... and a call is rejected with a ToolError only after its whole chain  *)
(* has failed.                                                             *)
THEOREM WholeChain == DohSpec => []ToolErrorAfterWholeChain
  BY DohInvariance, PTL DEF DohInv

(* The deadline of an attempt lies within the budget of its call. *)
LEMMA WithinBudget ==
  ASSUME DohInv, NEW c \in Calls, InFlight(c)
  PROVE  /\ now \in Nat /\ deadline[c] \in Nat /\ startedAt[c] \in Nat
         /\ Len(Chain(c)) * Timeout(c) \in Nat
         /\ now <= deadline[c]
         /\ deadline[c] <= startedAt[c] + Len(Chain(c)) * Timeout(c)
  <1>1. /\ Len(Chain(c)) \in Nat /\ Timeout(c) \in Nat
        /\ pos[c] \in Nat /\ pos[c] <= Len(Chain(c))
        /\ now \in Nat /\ deadline[c] \in Nat /\ startedAt[c] \in Nat
        /\ now <= deadline[c]
    BY OptionsType DEF DohInv, AttemptsInTime, DohTypeOK
  <1>2. deadline[c] <= startedAt[c] + pos[c] * Timeout(c)
    BY DEF DohInv, AttemptsInTime
  <1>3. /\ pos[c] * Timeout(c) \in Nat /\ Len(Chain(c)) * Timeout(c) \in Nat
        /\ pos[c] * Timeout(c) <= Len(Chain(c)) * Timeout(c)
    <2> DEFINE i == pos[c]  n == Len(Chain(c))  t == Timeout(c)
    <2>1. i \in Nat /\ n \in Nat /\ t \in Nat /\ i <= n
      BY <1>1
    <2> HIDE DEF i, n, t
    <2>2. i * t \in Nat /\ n * t \in Nat /\ i * t <= n * t
      BY <2>1, BudgetGrows
    <2>3. QED
      BY <2>2 DEF i, n, t
  <1>4. QED
    BY <1>1, <1>2, <1>3, InBetween, Zenon

(* A call settles within one timeout per resolver of its chain.            *)
THEOREM InTime == DohSpec => []SettlesInTime
  <1>1. DohInv => SettlesInTime
    <2> SUFFICES ASSUME DohInv, NEW c \in Calls, InFlight(c)
                 PROVE  now <= startedAt[c] + Len(Chain(c)) * Timeout(c)
      BY DEF SettlesInTime
    <2>1. QED
      BY WithinBudget
  <1>2. QED
    BY <1>1, DohInvariance, PTL

-----------------------------------------------------------------------------

(* dohQuery implements Lookup: each step of a call starts it, settles it,  *)
(* lets time pass within its budget, or changes nothing its caller sees.   *)
THEOREM Refinement == DohSpec => ImplementsLookup
  <1> DEFINE Seen(c) == IF InFlight(c) THEN "pending" ELSE phase[c]
  <1>1. DohInit => Promise!Init
    BY DEF DohInit, Promise!Init, InFlight
  <1>2. DohInv /\ [DohNext]_dohVars => [Promise!Next]_(Promise!vars)
    <2> SUFFICES ASSUME DohInv, [DohNext]_dohVars
                 PROVE  [Promise!Next]_(Promise!vars)
      OBVIOUS
    <2> USE DEF DohInv, DohTypeOK
    <2>1. ASSUME NEW C \in SUBSET Calls, Begin(C)
          PROVE  Promise!Start(C)
      <3>1. [c \in Calls |-> Seen(c)]' \in [Calls -> Promise!States]
        BY <2>1 DEF Begin, InFlight, Promise!States, Promise!Settled
      <3>2. \A c \in Calls : IF c \in C THEN [d \in Calls |-> Seen(d)]'[c] # "idle"
                             ELSE [d \in Calls |-> Seen(d)]'[c] = [d \in Calls |-> Seen(d)][c]
        BY <2>1 DEF Begin, InFlight
      <3>3. \A c \in C : [d \in Calls |-> Seen(d)][c] = "idle"
        BY <2>1 DEF Begin, InFlight
      <3>4. /\ C # {} /\ now' = now
            /\ startedAt' = [c \in Calls |-> IF c \in C THEN now ELSE startedAt[c]]
        BY <2>1 DEF Begin
      <3>5. QED
        BY <3>1, <3>2, <3>3, <3>4, Zenon DEF Promise!Start
    <2>2. ASSUME NEW c \in Calls, NEW how \in {"fulfilled", "rejected"}, NEW why,
                 InFlight(c), Settle(c, how, why), UNCHANGED <<now, startedAt>>
          PROVE  Promise!Settle(c)
      <3>1. [d \in Calls |-> Seen(d)]' = [[d \in Calls |-> Seen(d)] EXCEPT ![c] = how]
        BY <2>2 DEF Settle, InFlight
      <3>2. QED
        BY <2>2, <3>1 DEF Promise!Settle, Promise!Settled
    <2>3. ASSUME NEW c \in Calls, AttemptFails(c)
          PROVE  [Promise!Next]_(Promise!vars)
      <3>1. PICK why \in ToolErrors : TryNext(c, why)
        BY <2>3 DEF AttemptFails
      <3>2. CASE FetchFrom(c, pos[c] + 1, why)
        BY <2>3, <3>2 DEF AttemptFails, FetchFrom, Promise!vars, InFlight
      <3>3. CASE Settle(c, "rejected", Thrown(why))
        BY <2>2, <2>3, <3>3 DEF AttemptFails, InFlight, Promise!Next
      <3>4. QED
        BY <3>1, <3>2, <3>3 DEF TryNext, Reject
    <2>4. ASSUME NEW c \in Calls, HeadersArrive(c)
          PROVE  UNCHANGED Promise!vars
      <3>1. [d \in Calls |-> Seen(d)]' = [d \in Calls |-> Seen(d)]
        BY <2>4 DEF HeadersArrive, InFlight
      <3>2. QED
        BY <2>4, <3>1 DEF HeadersArrive, Promise!vars
    <2>5. ASSUME NEW c \in Calls, BodyDecodes(c) \/ BodyFails(c)
          PROVE  Promise!Settle(c)
      BY <2>2, <2>5 DEF BodyDecodes, BodyFails, Reject, InFlight
    <2>6. ASSUME Tick
          PROVE  Promise!Tick
      <3>1. ASSUME NEW c \in Calls, InFlight(c)
            PROVE  now < startedAt[c] + Len(Chain(c)) * Timeout(c)
        BY <2>6, <3>1, WithinBudget DEF Tick
      <3>2. [d \in Calls |-> Seen(d)]' = [d \in Calls |-> Seen(d)]
        BY <2>6 DEF Tick, InFlight
      <3>3. /\ now' = now + 1
            /\ startedAt' = startedAt
        BY <2>6 DEF Tick
      <3>4. \A c \in Calls : [d \in Calls |-> Seen(d)][c] = "pending" =>
              now < startedAt[c] + [d \in Calls |-> Len(Chain(d)) * Timeout(d)][c]
        <4> SUFFICES ASSUME NEW c \in Calls, [d \in Calls |-> Seen(d)][c] = "pending"
                     PROVE  now < startedAt[c] + [d \in Calls |-> Len(Chain(d)) * Timeout(d)][c]
          OBVIOUS
        <4>1. InFlight(c)
          BY DEF InFlight
        <4>2. [d \in Calls |-> Len(Chain(d)) * Timeout(d)][c] = Len(Chain(c)) * Timeout(c)
          BY Zenon
        <4>3. QED
          BY <3>1, <4>1, <4>2, Zenon
      <3>5. QED
        BY <3>2, <3>3, <3>4, Zenon DEF Promise!Tick
    <2>7. CASE UNCHANGED dohVars
      BY <2>7 DEF dohVars, Promise!vars, InFlight
    <2>8. QED
      BY <2>1, <2>3, <2>4, <2>5, <2>6, <2>7 DEF DohNext, Attempt, Promise!Next
  <1>3. QED
    BY <1>1, <1>2, DohInvariance, PTL DEF DohSpec, ImplementsLookup, Promise!Spec

-----------------------------------------------------------------------------
(* The legs of the tools *)

Names == {c \in Legs : AsksFor(c, "name")}
Origin == CHOOSE c \in Legs : AsksFor(c, "origin")

(* Legs are calls, each can be sent, and each asks for what the tool asks. *)
LEMMA LegsAreCalls ==
  ASSUME tool \in Tools
  PROVE  /\ Legs \subseteq Calls /\ FirstLegs \subseteq Calls /\ IsFiniteSet(Calls)
         /\ tool \in ToolNames
         /\ \A c \in Legs : Query[tool][c] \in TypesOf(tool)
<1>1. PICK C \in SUBSET Calls : Query[tool] \in [C -> TypesOf(tool)]
  BY ToolAssumption DEF ToolAssumption
<1> QED
  BY <1>1, ToolAssumption DEF ToolAssumption, Legs, LegsOf, FirstLegs

LEMMA AllFetch ==
  \A c \in Calls : /\ Fetches(c) /\ Chain(c) \in Seq(Resolvers) /\ Len(Chain(c)) \in Nat \ {0}
                   /\ Timeout(c) \in Nat \ {0}
<1> SUFFICES ASSUME NEW c \in Calls
             PROVE  /\ Fetches(c) /\ Chain(c) \in Seq(Resolvers) /\ Len(Chain(c)) \in Nat \ {0}
                    /\ Timeout(c) \in Nat \ {0}
  OBVIOUS
<1>1. Opts[c].encodable /\ Chain(c) # <<>>
  BY ToolAssumption DEF ToolAssumption
<1>2. Chain(c) \in Seq(Resolvers) /\ Timeout(c) \in Nat \ {0}
  BY OptionsType
<1>3. Len(Chain(c)) \in Nat \ {0}
  BY <1>1, <1>2
<1> QED
  BY <1>1, <1>2, <1>3 DEF Fetches

(* Only lookupAsn has legs for names, and one for the origins. *)
LEMMA LegsOfTools ==
  ASSUME tool \in Tools
  PROVE  /\ \A c \in Legs : /\ AsksFor(c, "name") => tool = "asn"
                            /\ AsksFor(c, "origin") => tool = "asn"
         /\ tool # "asn" => FirstLegs = Legs /\ Names = {}
         /\ FirstLegs \cup Names = Legs
<1>1. \A c \in Legs : Query[tool][c] \in TypesOf(tool)
  BY LegsAreCalls
<1> QED
  BY <1>1 DEF TypesOf, AsksFor, FirstLegs, Names

LEMMA AsnLegs ==
  ASSUME tool \in Tools, tool = "asn"
  PROVE  /\ Origin \in Calls /\ Origin \in Legs /\ Origin \notin Names
         /\ FirstLegs = {Origin} /\ Legs = {Origin} \cup Names
         /\ \A c \in Legs : AsksFor(c, "origin") <=> c = Origin
         /\ NameLegs \in Seq(Calls) /\ Len(NameLegs) \in Nat \ {0}
         /\ Names = NamesOf(Len(NameLegs))
<1>1. PICK o \in Calls : LegsFor("asn", "origin") = {o}
  <2>1. "origin" \in TypesOf(tool) \ {"any", "name"}
    BY DEF TypesOf
  <2> QED
    BY <2>1, ToolAssumption DEF ToolAssumption
<1>2. \A c \in Legs : AsksFor(c, "origin") <=> c = o
  BY <1>1 DEF AsksFor, Legs, LegsFor
<1>3. o \in Legs /\ AsksFor(o, "origin")
  BY <1>1, <1>2 DEF LegsFor, Legs
<1>4. Origin = o
  BY <1>2, <1>3 DEF Origin
<1>5. \A c \in Legs : c = o \/ AsksFor(c, "name")
  BY <1>2, LegsAreCalls DEF TypesOf, AsksFor
<1>6. ~AsksFor(o, "name")
  BY <1>3 DEF AsksFor
<1>7. Names = LegsFor("asn", "name")
  BY DEF Names, LegsFor, AsksFor, Legs
<1>8. /\ NameLegs \in Seq(Calls) /\ NameLegs # <<>>
      /\ LegsFor("asn", "name") = NamesOf(Len(NameLegs))
  BY ToolAssumption DEF ToolAssumption
<1> QED
  BY <1>2, <1>3, <1>4, <1>5, <1>6, <1>7, <1>8 DEF Names, FirstLegs

(* As many names as records: no leg is named twice. *)
LEMMA NamesAreCounted ==
  ASSUME tool \in Tools, tool = "asn", NEW k \in 0 .. Len(NameLegs)
  PROVE  NamesOf(k) \subseteq Names /\ IsFiniteSet(NamesOf(k)) /\ Cardinality(NamesOf(k)) = k
<1>1. /\ NameLegs \in Seq(Calls) /\ Len(NameLegs) \in Nat /\ Names = NamesOf(Len(NameLegs))
      /\ k \in Nat /\ 1 .. k \subseteq 1 .. Len(NameLegs)
  BY AsnLegs
<1>2. NamesOf(k) \subseteq Names
  BY <1>1 DEF NamesOf
<1> DEFINE f == [i \in 1 .. k |-> NameLegs[i]]
<1>3. f \in Bijection(1 .. k, NamesOf(k))
  <2>1. f \in Surjection(1 .. k, NamesOf(k))
    BY DEF Surjection, NamesOf
  <2>2. \A i, j \in 1 .. Len(NameLegs) : NameLegs[i] = NameLegs[j] => i = j
    BY ToolAssumption DEF ToolAssumption
  <2>3. f \in Injection(1 .. k, NamesOf(k))
    BY <1>1, <2>1, <2>2 DEF Injection, Surjection, IsInjective
  <2> QED
    BY <2>1, <2>3 DEF Bijection
<1>4. IsFiniteSet(1 .. k) /\ Cardinality(1 .. k) = k
  BY <1>1, FS_Interval
<1>5. Cardinality(NamesOf(k)) = Cardinality(1 .. k) /\ IsFiniteSet(NamesOf(k))
  BY <1>3, <1>4, FS_Bijection DEF ExistsBijection
<1> QED
  BY <1>2, <1>4, <1>5

-----------------------------------------------------------------------------
(* Its queries *)

(* Every step of a tool is one of its queries, or none. *)
LEMMA KeptIsBounded ==
  ASSUME tool \in Tools, tool = "asn", NEW v
  PROVE  Kept(v) \in 0 .. Len(NameLegs)
<1>1. Len(NameLegs) \in Nat \ {0}
  BY AsnLegs
<1>2. Kept(v) \in {0, 1, Len(NameLegs)}
  BY DEF Kept
<1> QED
  BY <1>1, <1>2

LEMMA StepOfDoh ==
  ASSUME tool \in Tools, [Next]_vars
  PROVE  [DohNext]_dohVars
<1>1. CASE Invoke
  BY <1>1, LegsAreCalls DEF Invoke, DohNext
<1>2. ASSUME NEW c \in Calls, Step(c)
      PROVE  DohNext
  BY <1>2 DEF Step, DohNext, Attempt
<1>3. CASE AskNames
  <2> DEFINE k == Kept(reply[Origin])
  <2>1. NamesOf(k) \subseteq Calls
    BY <1>3, KeptIsBounded, NamesAreCounted, LegsAreCalls DEF Names, AskNames
  <2>2. Begin(NamesOf(k)) \/ UNCHANGED dohVars
    BY <1>3 DEF AskNames, Origin
  <2> QED
    BY <2>1, <2>2 DEF DohNext
<1>4. CASE RefuseName \/ TimePasses \/ (\E r \in Resolvers : ViewChanges(r)) \/ UNCHANGED vars
  BY <1>4 DEF RefuseName, TimePasses, ViewChanges, vars, DohNext
<1> QED
  BY <1>1, <1>2, <1>3, <1>4 DEF Next

-----------------------------------------------------------------------------
(* What a query's step is to the tool *)

Nothing == [c \in Calls |-> NoReply]

(* The replies, once leg c has made its step. *)
Replies(c) == IF phase'[c] = "fulfilled" THEN [reply EXCEPT ![c] = view[Current(c)]] ELSE reply

Fails(c) == phase'[c] = "rejected" /\ ~Caught(c)

Rejects(c) ==
  /\ state = "pending" /\ Fails(c)
  /\ state' = "rejected" /\ reason' = lastErr'[c]
  /\ reply' = Nothing /\ seen' = [r \in Resolvers |-> {}] /\ result' = result

Fulfills(c) ==
  /\ state = "pending" /\ ~Fails(c) /\ ~AsksFor(c, "origin")
  /\ \A l \in Legs : phase'[l] \in {"fulfilled", "rejected"} \/ ~Awaited(l)
  /\ Fulfill(Replies(c))

GoesOn(c) == state = "pending" /\ ~Fails(c) /\ Keep(Replies(c))

Unheeded == state # "pending" /\ Keep(reply)

LEMMA LegMoves ==
  ASSUME DohInv, NEW c \in Calls, Step(c)
  PROVE  /\ c \in Legs /\ InFlight(c) /\ now \in Nat /\ now <= deadline[c]
         /\ UNCHANGED <<now, startedAt, view, changes, tool>>
         /\ \E p \in {"headers", "body", "fulfilled", "rejected"} : phase' = [phase EXCEPT ![c] = p]
         /\ phase'[c] = "rejected" => lastErr'[c] \in ToolErrors \cup {"raw"}
         /\ \E i \in 1 .. Len(Chain(c)) : Current(c) = Chain(c)[i]
         /\ Rejects(c) \/ Fulfills(c) \/ GoesOn(c) \/ Unheeded
<1>1. /\ phase \in [Calls -> {"idle", "headers", "body", "fulfilled", "rejected"}] /\ now \in Nat
      /\ lastErr \in [Calls -> ToolErrors \cup {NoError, "raw"}]
  BY DEF DohInv, DohTypeOK
<1>2. c \in Legs /\ UNCHANGED <<view, changes, tool>>
  BY DEF Step
<1>3. InFlight(c) /\ UNCHANGED <<now, startedAt>>
  BY DEF Step, AttemptFails, HeadersArrive, BodyDecodes, BodyFails, InFlight
<1>4. now <= deadline[c] /\ \E i \in 1 .. Len(Chain(c)) : Current(c) = Chain(c)[i]
  BY <1>3 DEF DohInv, AttemptsInTime, Current
<1> DEFINE Moved(p) == /\ phase' = [phase EXCEPT ![c] = p] /\ phase'[c] = p
                       /\ p = "rejected" => lastErr'[c] \in ToolErrors \cup {"raw"}
<1>5. \/ (Moved("headers") \/ Moved("body") \/ Moved("rejected")) /\ Join(c, reply)
      \/ Moved("fulfilled") /\ Join(c, [reply EXCEPT ![c] = view[Current(c)]])
  <2>1. CASE AttemptFails(c)
    <3>1. PICK why \in ToolErrors : TryNext(c, why)
      BY <2>1 DEF AttemptFails
    <3>2. Thrown(why) \in ToolErrors
      BY DEF Thrown, ToolErrors, NoError
    <3>3. CASE FetchFrom(c, pos[c] + 1, why)
      <4>1. phase' = phase /\ phase[c] = "headers"
        BY <2>1, <3>3 DEF FetchFrom, AttemptFails
      <4>2. Moved("headers")
        BY <1>1, <4>1
      <4> QED
        BY <2>1, <4>2 DEF Step, AttemptFails, BodyDecodes
    <3>4. CASE Settle(c, "rejected", Thrown(why))
      <4>1. Moved("rejected")
        BY <1>1, <3>2, <3>4 DEF Settle
      <4> QED
        BY <2>1, <4>1 DEF Step, AttemptFails, BodyDecodes
    <3> QED
      BY <3>1, <3>3, <3>4 DEF TryNext, Reject
  <2>2. CASE HeadersArrive(c)
    <3>1. Moved("body")
      BY <1>1, <2>2 DEF HeadersArrive
    <3> QED
      BY <2>2, <3>1 DEF Step, HeadersArrive, BodyDecodes
  <2>3. CASE BodyFails(c) /\ Join(c, reply)
    <3>1. Moved("rejected")
      BY <1>1, <2>3 DEF BodyFails, Reject, Settle
    <3> QED
      BY <2>3, <3>1
  <2>4. CASE BodyDecodes(c) /\ Join(c, [reply EXCEPT ![c] = view[Current(c)]])
    <3>1. Moved("fulfilled")
      BY <1>1, <2>4 DEF BodyDecodes, Settle
    <3> QED
      BY <2>4, <3>1
  <2> QED
    BY <2>1, <2>2, <2>3, <2>4 DEF Step
<1>6. PICK p \in {"headers", "body", "fulfilled", "rejected"} : Moved(p) /\ Join(c, Replies(c))
  BY <1>5 DEF Replies
<1>7. Rejects(c) \/ Fulfills(c) \/ GoesOn(c) \/ Unheeded
  BY <1>6 DEF Join, Rejects, Fulfills, GoesOn, Unheeded, Fails, Nothing
<1> QED
  BY <1>1, <1>2, <1>3, <1>4, <1>6, <1>7

-----------------------------------------------------------------------------
(* The inductive invariant *)

(* Some resolver that leg c may ask has held v since the call. *)
Told(c, v) == \E i \in 1 .. Len(Chain(c)) : v \in seen[Chain(c)[i]]

(* Only legs are sent; the tool is pending until they have all settled, or *)
(* one has failed that it does not catch.                                  *)
AwaitsItsLegs ==
  /\ \A c \in Calls \ Legs : phase[c] = "idle"
  /\ state = "idle" => now = 0 /\ reply = Nothing /\ \A c \in Calls : phase[c] = "idle"
  /\ state = "pending" => /\ \A c \in FirstLegs : phase[c] # "idle"
                          /\ \A c \in Legs : phase[c] = "rejected" => Caught(c)
  /\ state = "fulfilled" => \A c \in Calls : ~InFlight(c)

(* What the tool has been told, some resolver held. *)
KeepsReplies ==
  state = "pending" =>
    /\ \A r \in Resolvers : view[r] \in seen[r]
    /\ \A c \in Calls : phase[c] = "fulfilled" <=> reply[c] # NoReply
    /\ \A c \in Legs : reply[c] # NoReply => Told(c, reply[c])

(* lookupAsn asks for names once the origin is known, and for as many as   *)
(* that says.                                                              *)
TwoRounds ==
  tool = "asn" =>
    /\ state = "fulfilled" => \E c \in Names : phase[c] # "idle"
    /\ (\E c \in Names : phase[c] # "idle") =>
         /\ state \in {"pending", "fulfilled"} /\ phase[Origin] = "fulfilled"
         /\ \E v \in AsViews :
              /\ Told(Origin, v) /\ Kept(v) >= 1
              /\ {c \in Legs : phase[c] # "idle"} = {Origin} \cup NamesOf(Kept(v))

ToolInv ==
  /\ DohInv /\ TypeOK
  /\ AwaitsItsLegs /\ KeepsReplies /\ TwoRounds
  /\ StatusWasSeen /\ ConsistentMeansAgreement /\ NamesAreBestEffort

(* The tool fulfills once, and nothing happens after. *)
LEMMA FulfilledIsOver ==
  ASSUME TypeOK, AwaitsItsLegs, state = "fulfilled", [Next]_vars, DohInv
  PROVE  UNCHANGED vars
<1>1. \A c \in Calls : ~Step(c)
  BY LegMoves DEF AwaitsItsLegs
<1>2. ~TimePasses
  BY DEF TimePasses, Tick, AwaitsItsLegs
<1> QED
  BY <1>1, <1>2 DEF Next, RefuseName, Invoke, AskNames, ViewChanges

(* What is true of the replies when a leg has made its step. *)
LEMMA RepliesAreTold ==
  ASSUME DohInv, TypeOK, KeepsReplies, state = "pending", NEW c \in Calls, Step(c)
  PROVE  /\ Replies(c) \in [Calls -> ViewsOf(tool) \cup {NoReply}]
         /\ \A l \in Calls : phase'[l] = "fulfilled" <=> Replies(c)[l] # NoReply
         /\ \A l \in Legs : Replies(c)[l] # NoReply => Told(l, Replies(c)[l])
<1>1. /\ reply \in [Calls -> ViewsOf(tool) \cup {NoReply}] /\ view \in [Resolvers -> ViewsOf(tool)]
      /\ phase \in [Calls -> {"idle", "headers", "body", "fulfilled", "rejected"}]
  BY DEF TypeOK, DohTypeOK
<1>2. InFlight(c) /\ \E i \in 1 .. Len(Chain(c)) : Current(c) = Chain(c)[i]
  BY LegMoves
<1>3. PICK p \in {"headers", "body", "fulfilled", "rejected"} : phase' = [phase EXCEPT ![c] = p]
  BY LegMoves
<1>4. Current(c) \in Resolvers
  BY <1>2, AllFetch
<1>5. NoReply \notin ViewsOf(tool)
  <2>1. tool \in Tools
    BY DEF TypeOK
  <2> QED
    BY <2>1, ToolAssumption DEF ToolAssumption
<1>6. view[Current(c)] \in ViewsOf(tool) /\ view[Current(c)] # NoReply /\ Told(c, view[Current(c)])
  BY <1>1, <1>2, <1>4, <1>5 DEF KeepsReplies, Told
<1>7. phase[c] # "fulfilled" /\ reply[c] = NoReply
  BY <1>2 DEF InFlight, KeepsReplies
<1>8. CASE p = "fulfilled"
  BY <1>1, <1>3, <1>6, <1>7, <1>8 DEF Replies, KeepsReplies
<1>9. CASE p # "fulfilled"
  BY <1>1, <1>3, <1>7, <1>9 DEF Replies, KeepsReplies
<1> QED
  BY <1>8, <1>9

-----------------------------------------------------------------------------
(* Each step keeps it *)

LEMMA SameTool ==
  ASSUME [Next]_vars
  PROVE  /\ tool' = tool /\ Legs' = Legs /\ FirstLegs' = FirstLegs /\ Names' = Names
         /\ Origin' = Origin /\ Asked' = Asked
         /\ \A c : Caught(c)' = Caught(c)
<1>1. tool' = tool
  BY DEF Next, RefuseName, Invoke, Step, AskNames, ViewChanges, TimePasses, toolVars, vars
<1>2. Legs' = Legs
  BY <1>1 DEF Legs
<1>3. FirstLegs' = FirstLegs /\ Names' = Names /\ Asked' = Asked
  BY <1>1, <1>2 DEF FirstLegs, Names, AsksFor, Asked
<1>4. Origin' = Origin
  BY <1>1, <1>2 DEF Origin, AsksFor
<1>5. \A c : Caught(c)' = Caught(c)
  BY <1>1, <1>2 DEF Caught, AsksFor
<1> QED
  BY <1>1, <1>2, <1>3, <1>4, <1>5

LEMMA InvokeSends ==
  ASSUME DohTypeOK, tool \in Tools, AwaitsItsLegs, Invoke
  PROVE  \A c \in Calls : phase'[c] = IF c \in FirstLegs THEN "headers" ELSE "idle"
<1>1. state = "idle" /\ Begin(FirstLegs)
  BY DEF Invoke
<1> QED
  BY <1>1, AllFetch DEF AwaitsItsLegs, Begin

(* The second round: it is asked for as many names as the origin says, or  *)
(* there is no origin.                                                     *)
LEMMA AskNamesSays ==
  ASSUME DohTypeOK, tool \in Tools, AskNames
  PROVE  /\ tool = "asn" /\ state = "pending" /\ phase[Origin] = "fulfilled"
         /\ \A c \in Legs \ {Origin} : phase[c] = "idle"
         /\ UNCHANGED <<now, view, changes, result>>
         /\ LET k == Kept(reply[Origin])
            IN \/ /\ k >= 1
                  /\ state' = "pending" /\ reason' = reason /\ reply' = reply /\ seen' = seen
                  /\ \A c \in Calls : phase'[c] = IF c \in NamesOf(k) THEN "headers" ELSE phase[c]
                  /\ \A c \in Calls : startedAt'[c] = IF c \in NamesOf(k) THEN now ELSE startedAt[c]
               \/ /\ k = 0
                  /\ state' = "rejected" /\ reason' = "not_found"
                  /\ reply' = Nothing /\ seen' = [r \in Resolvers |-> {}]
                  /\ UNCHANGED dohVars
<1> DEFINE k == Kept(reply[Origin])
<1>1. /\ tool = "asn" /\ state = "pending" /\ phase[Origin] = "fulfilled"
      /\ \A c \in Legs \ {Origin} : phase[c] = "idle"
      /\ UNCHANGED <<view, changes, result>>
  BY DEF AskNames, Origin
<1>2. \/ /\ NamesOf(k) # {}
         /\ Begin(NamesOf(k))
         /\ UNCHANGED <<state, reason, reply, seen>>
      \/ /\ NamesOf(k) = {}
         /\ state' = "rejected" /\ reason' = "not_found"
         /\ reply' = Nothing
         /\ seen' = [r \in Resolvers |-> {}]
         /\ UNCHANGED dohVars
  BY DEF AskNames, Origin, Nothing
<1>3. k \in 0 .. Len(NameLegs) /\ k \in Nat
  BY <1>1, KeptIsBounded, AsnLegs
<1>4. NamesOf(k) = {} <=> k = 0
  <2>1. k = 0 => 1 .. k = {}
    OBVIOUS
  <2>2. k # 0 => 1 \in 1 .. k
    BY <1>3
  <2> QED
    BY <2>1, <2>2 DEF NamesOf
<1>5. CASE NamesOf(k) # {}
  BY <1>1, <1>2, <1>3, <1>4, <1>5, AllFetch DEF Begin
<1>6. CASE NamesOf(k) = {}
  BY <1>1, <1>2, <1>3, <1>4, <1>6 DEF dohVars
<1> QED
  BY <1>5, <1>6

LEMMA AwaitsStep ==
  ASSUME ToolInv, [Next]_vars
  PROVE  AwaitsItsLegs'
<1>1. DohTypeOK /\ tool \in Tools /\ Legs \subseteq Calls /\ FirstLegs \subseteq Legs
      /\ phase \in [Calls -> {"idle", "headers", "body", "fulfilled", "rejected"}]
  BY LegsAreCalls DEF ToolInv, TypeOK, DohTypeOK, FirstLegs
<1>2. AwaitsItsLegs /\ DohInv /\ TypeOK
  BY DEF ToolInv
<1>3. Legs' = Legs /\ FirstLegs' = FirstLegs /\ \A c : Caught(c)' = Caught(c)
  BY SameTool
<1>4. CASE RefuseName
  BY <1>2, <1>3, <1>4 DEF RefuseName, AwaitsItsLegs, dohVars
<1>5. CASE Invoke
  <2>1. state' = "pending"
    BY <1>5 DEF Invoke
  <2> QED
    BY <1>1, <1>2, <1>3, <1>5, <2>1, InvokeSends DEF AwaitsItsLegs
<1>6. ASSUME NEW c \in Calls, Step(c)
      PROVE  AwaitsItsLegs'
  <2>1. c \in Legs /\ InFlight(c)
    BY <1>2, <1>6, LegMoves
  <2>2. PICK p \in {"headers", "body", "fulfilled", "rejected"} : phase' = [phase EXCEPT ![c] = p]
    BY <1>2, <1>6, LegMoves
  <2>3. state # "idle" /\ state # "fulfilled"
    BY <2>1 DEF InFlight, ToolInv, AwaitsItsLegs
  <2>4. \A l \in Calls \ Legs : phase'[l] = "idle"
    BY <1>1, <1>2, <2>1, <2>2 DEF AwaitsItsLegs
  <2>5. \A l \in Calls : phase[l] # "idle" => phase'[l] # "idle"
    BY <1>1, <2>2
  <2>6. CASE Rejects(c) \/ Unheeded
    BY <1>3, <2>3, <2>4, <2>6 DEF Rejects, Unheeded, Keep, AwaitsItsLegs
  <2>7. CASE Fulfills(c)
    <3>1. \A l \in Legs : phase'[l] \in {"fulfilled", "rejected"} \/ (phase[l] = "idle" /\ AsksFor(l, "name"))
      <4>1. \A l \in Legs : phase'[l] \in {"fulfilled", "rejected"} \/ ~Awaited(l)
        BY <2>7, Zenon DEF Fulfills
      <4>2. \A l \in Legs : ~Awaited(l) => phase[l] = "idle" /\ AsksFor(l, "name")
        BY DEF Awaited
      <4> QED
        BY <4>1, <4>2
    <3>2. \A l \in Legs : phase[l] = "idle" => phase'[l] = "idle"
      BY <1>1, <2>1, <2>2 DEF InFlight
    <3>3. \A l \in Calls : phase'[l] \in {"fulfilled", "rejected", "idle"}
      BY <2>4, <3>1, <3>2
    <3>4. state' = "fulfilled"
      BY <2>7 DEF Fulfills, Fulfill
    <3> QED
      BY <1>3, <2>4, <3>3, <3>4 DEF AwaitsItsLegs, InFlight
  <2>8. CASE GoesOn(c)
    <3>1. state = "pending" /\ state' = "pending" /\ ~Fails(c)
      BY <2>8 DEF GoesOn, Keep
    <3>2. \A l \in Legs : phase'[l] = "rejected" => Caught(l)
      BY <1>1, <1>2, <2>2, <3>1 DEF Fails, AwaitsItsLegs
    <3> QED
      BY <1>1, <1>2, <1>3, <2>4, <2>5, <3>1, <3>2 DEF AwaitsItsLegs
  <2> QED
    BY <1>2, <1>6, <2>6, <2>7, <2>8, LegMoves
<1>7. CASE AskNames
  <2>1. \A k \in 0 .. Len(NameLegs) : NamesOf(k) \subseteq Names
    BY <1>1, <1>7, AskNamesSays, NamesAreCounted
  <2>2. NamesOf(Kept(reply[Origin])) \subseteq Legs
    BY <1>1, <1>7, <2>1, AskNamesSays, KeptIsBounded DEF Names
  <2>3. state = "pending" /\ state' \in {"pending", "rejected"}
    BY <1>1, <1>7, AskNamesSays
  <2>4. \A c \in Calls : phase'[c] = phase[c] \/ (c \in Legs /\ phase'[c] = "headers")
    <3> DEFINE k == Kept(reply[Origin])
    <3>1. NamesOf(k) \subseteq Legs
      BY <2>2
    <3>2. \/ \A c \in Calls : phase'[c] = IF c \in NamesOf(k) THEN "headers" ELSE phase[c]
          \/ phase' = phase
      BY <1>1, <1>7, AskNamesSays DEF dohVars
    <3> HIDE DEF k
    <3> QED
      BY <3>1, <3>2
  <2> QED
    BY <1>1, <1>2, <1>3, <2>3, <2>4 DEF AwaitsItsLegs
<1>8. CASE \E r \in Resolvers : ViewChanges(r)
  BY <1>2, <1>3, <1>8 DEF ViewChanges, AwaitsItsLegs, InFlight, dohVars
<1>9. CASE TimePasses
  BY <1>2, <1>3, <1>9 DEF TimePasses, Tick, toolVars, AwaitsItsLegs, InFlight
<1>10. CASE UNCHANGED vars
  BY <1>2, <1>3, <1>10 DEF vars, dohVars, toolVars, AwaitsItsLegs, InFlight
<1> QED
  BY <1>4, <1>5, <1>6, <1>7, <1>8, <1>9, <1>10 DEF Next

(* What was told stays told while the tool is pending. *)
LEMMA SeenGrows ==
  ASSUME TypeOK, NEW r \in Resolvers, ViewChanges(r)
  PROVE  /\ \A s \in Resolvers : view'[s] \in seen'[s] \/ (view'[s] = view[s] /\ seen'[s] = seen[s])
         /\ \A s \in Resolvers : seen[s] \subseteq seen'[s]
         /\ \A c \in Calls : \A v : Told(c, v) => Told(c, v)'
         /\ UNCHANGED <<dohVars, tool, state, reason, reply, result>>
         /\ state = "pending" /\ changes' \in 0 .. MaxChanges
         /\ view' \in [Resolvers -> ViewsOf(tool)]
         /\ seen' \in [Resolvers -> SUBSET ViewsOf(tool)]
<1>1. PICK v \in ViewsOf(tool) : /\ view' = [view EXCEPT ![r] = v]
                                 /\ seen' = [seen EXCEPT ![r] = @ \cup {v}]
  BY DEF ViewChanges
<1>2. view \in [Resolvers -> ViewsOf(tool)] /\ seen \in [Resolvers -> SUBSET ViewsOf(tool)]
  BY DEF TypeOK
<1>3. \A s \in Resolvers : seen[s] \subseteq seen'[s]
  BY <1>1, <1>2
<1>4. \A c \in Calls : \A w : Told(c, w) => Told(c, w)'
  <2>1. \A c \in Calls : \A i \in 1 .. Len(Chain(c)) : Chain(c)[i] \in Resolvers
    BY AllFetch
  <2> QED
    BY <1>3, <2>1 DEF Told
<1>5. changes' \in 0 .. MaxChanges
  BY ToolAssumption DEF ViewChanges, TypeOK, ToolAssumption
<1> QED
  BY <1>1, <1>2, <1>3, <1>4, <1>5 DEF ViewChanges

LEMMA KeepsStep ==
  ASSUME ToolInv, [Next]_vars
  PROVE  KeepsReplies'
<1> SUFFICES ASSUME state' = "pending"
             PROVE  KeepsReplies'
  BY DEF KeepsReplies
<1>1. /\ DohTypeOK /\ tool \in Tools /\ Legs \subseteq Calls /\ FirstLegs \subseteq Legs
      /\ phase \in [Calls -> {"idle", "headers", "body", "fulfilled", "rejected"}]
      /\ reply \in [Calls -> ViewsOf(tool) \cup {NoReply}] /\ Legs' = Legs
  BY LegsAreCalls, SameTool DEF ToolInv, TypeOK, DohTypeOK, FirstLegs
<1>2. AwaitsItsLegs /\ DohInv /\ TypeOK /\ KeepsReplies
  BY DEF ToolInv
<1>3. CASE Invoke
  <2>1. reply' = Nothing /\ UNCHANGED view /\ seen' = [r \in Resolvers |-> {view[r]}]
    BY <1>2, <1>3 DEF Invoke, AwaitsItsLegs
  <2>2. \A c \in Calls : phase'[c] # "fulfilled" /\ reply'[c] = NoReply
    BY <1>1, <1>2, <1>3, <2>1, InvokeSends DEF Nothing
  <2> QED
    BY <1>1, <2>1, <2>2 DEF KeepsReplies
<1>4. ASSUME NEW c \in Calls, Step(c)
      PROVE  KeepsReplies'
  <2>1. GoesOn(c)
    BY <1>2, <1>4, LegMoves DEF Rejects, Fulfills, Fulfill, Unheeded, Keep
  <2>2. state = "pending" /\ reply' = Replies(c) /\ UNCHANGED <<view, seen>>
    BY <1>2, <1>4, <2>1, LegMoves DEF GoesOn, Keep
  <2>3. /\ \A l \in Calls : phase'[l] = "fulfilled" <=> reply'[l] # NoReply
        /\ \A l \in Legs : reply'[l] # NoReply => Told(l, reply'[l])
    BY <1>2, <1>4, <2>2, RepliesAreTold
  <2> QED
    BY <1>1, <1>2, <2>2, <2>3 DEF KeepsReplies, Told
<1>5. CASE AskNames
  <2> DEFINE k == Kept(reply[Origin])
  <2>1. /\ state = "pending" /\ tool = "asn" /\ \A c \in Legs \ {Origin} : phase[c] = "idle"
        /\ reply' = reply /\ UNCHANGED <<view, seen>>
        /\ \A c \in Calls : phase'[c] = IF c \in NamesOf(k) THEN "headers" ELSE phase[c]
    BY <1>1, <1>5, AskNamesSays
  <2>2. NamesOf(k) \subseteq Legs \ {Origin}
    BY <1>1, <2>1, AsnLegs, KeptIsBounded, NamesAreCounted DEF Names
  <2>3. \A c \in Calls : phase'[c] = "fulfilled" <=> phase[c] = "fulfilled"
    <3> HIDE DEF k
    <3> QED
      BY <2>1, <2>2
  <2> QED
    BY <1>1, <1>2, <2>1, <2>3 DEF KeepsReplies, Told
<1>6. ASSUME NEW r \in Resolvers, ViewChanges(r)
      PROVE  KeepsReplies'
  <2>1. state = "pending" /\ UNCHANGED <<phase, reply>>
    BY <1>2, <1>6, SeenGrows DEF dohVars
  <2>2. \A s \in Resolvers : view'[s] \in seen'[s]
    BY <1>2, <1>6, <2>1, SeenGrows DEF KeepsReplies
  <2>3. \A c \in Calls : \A v : Told(c, v) => Told(c, v)'
    BY <1>2, <1>6, SeenGrows
  <2> QED
    BY <1>1, <1>2, <2>1, <2>2, <2>3 DEF KeepsReplies
<1>7. CASE TimePasses \/ UNCHANGED vars
  BY <1>1, <1>2, <1>7 DEF TimePasses, Tick, vars, dohVars, toolVars, KeepsReplies, Told
<1>8. CASE RefuseName
  BY <1>8 DEF RefuseName
<1> QED
  BY <1>3, <1>4, <1>5, <1>6, <1>7, <1>8 DEF Next

LEMMA RoundsStep ==
  ASSUME ToolInv, [Next]_vars
  PROVE  TwoRounds'
<1> SUFFICES ASSUME tool = "asn"
             PROVE  TwoRounds'
  BY SameTool DEF TwoRounds
<1> DEFINE Sent == {c \in Legs : phase[c] # "idle"}
           Second == /\ state \in {"pending", "fulfilled"} /\ phase[Origin] = "fulfilled"
                     /\ \E v \in AsViews : /\ Told(Origin, v) /\ Kept(v) >= 1
                                               /\ Sent = {Origin} \cup NamesOf(Kept(v))
<1>1. /\ DohTypeOK /\ tool \in Tools /\ Legs \subseteq Calls /\ Names \subseteq Legs
      /\ phase \in [Calls -> {"idle", "headers", "body", "fulfilled", "rejected"}]
      /\ Origin \in Calls /\ Origin \in Legs /\ Origin \notin Names /\ FirstLegs = {Origin}
      /\ Legs = {Origin} \cup Names
  BY LegsAreCalls, AsnLegs DEF ToolInv, TypeOK, DohTypeOK, Names
<1>2. AwaitsItsLegs /\ DohInv /\ TypeOK /\ KeepsReplies /\ TwoRounds
  BY DEF ToolInv
<1>3. tool' = tool /\ Legs' = Legs /\ Names' = Names /\ Origin' = Origin
  BY SameTool
<1>4. /\ state = "fulfilled" => \E c \in Names : phase[c] # "idle"
      /\ (\E c \in Names : phase[c] # "idle") => Second
  BY <1>2 DEF TwoRounds
<1>5. ASSUME \A c \in Names : phase'[c] = "idle", state' # "fulfilled"
      PROVE  TwoRounds'
  BY <1>3, <1>5 DEF TwoRounds
<1>6. ASSUME Second, \A c \in Legs : phase'[c] = "idle" <=> phase[c] = "idle",
             phase'[Origin] = "fulfilled", state' \in {"pending", "fulfilled"},
             \A c \in Calls : \A v : Told(c, v) => Told(c, v)'
      PROVE  TwoRounds'
  <2>1. PICK v \in AsViews : Told(Origin, v) /\ Kept(v) >= 1 /\ Sent = {Origin} \cup NamesOf(Kept(v))
    BY <1>6
  <2>2. Kept(v) \in 0 .. Len(NameLegs) /\ Kept(v) \in 1 .. Len(NameLegs)
    BY <1>1, <2>1, KeptIsBounded, AsnLegs
  <2>3. \E c \in Names : c \in NamesOf(Kept(v))
    <3>1. NamesOf(Kept(v)) \subseteq Names
      BY <1>1, <2>2, NamesAreCounted
    <3>2. NameLegs[1] \in NamesOf(Kept(v))
      BY <2>2 DEF NamesOf
    <3> QED
      BY <3>1, <3>2
  <2>4. \E c \in Names : phase'[c] # "idle"
    <3>1. PICK c \in Names : c \in NamesOf(Kept(v))
      BY <2>3
    <3>2. c \in Sent
      BY <2>1, <3>1
    <3> QED
      BY <1>1, <1>6, <3>1, <3>2
  <2>5. {c \in Legs : phase'[c] # "idle"} = Sent
    BY <1>6
  <2>6. Told(Origin, v)'
    BY <1>1, <1>3, <1>6, <2>1 DEF Told
  <2> HIDE DEF Sent
  <2> QED
    BY <1>3, <1>6, <2>1, <2>4, <2>5, <2>6 DEF TwoRounds, Told
<1> HIDE DEF Second
<1>7. ASSUME \A c \in Calls : \A v : Told(c, v) => Told(c, v)', state' = state, phase' = phase
      PROVE  TwoRounds'
  <2>1. CASE \E c \in Names : phase[c] # "idle"
    BY <1>4, <1>6, <1>7, <2>1 DEF Second
  <2>2. CASE \A c \in Names : phase[c] = "idle"
    BY <1>4, <1>5, <1>7, <2>2
  <2> QED
    BY <2>1, <2>2
<1>8. CASE RefuseName
  BY <1>1, <1>2, <1>5, <1>8 DEF RefuseName, AwaitsItsLegs, dohVars
<1>9. CASE Invoke
  BY <1>1, <1>2, <1>5, <1>9, InvokeSends DEF Invoke
<1>10. ASSUME NEW c \in Calls, Step(c)
       PROVE  TwoRounds'
  <2>1. c \in Legs /\ InFlight(c)
    BY <1>2, <1>10, LegMoves
  <2>2. PICK p \in {"headers", "body", "fulfilled", "rejected"} : phase' = [phase EXCEPT ![c] = p]
    BY <1>2, <1>10, LegMoves
  <2>3. \A l \in Legs : phase'[l] = "idle" <=> phase[l] = "idle"
    BY <1>1, <2>1, <2>2 DEF InFlight
  <2>4. Rejects(c) \/ Fulfills(c) \/ GoesOn(c) \/ Unheeded
    BY <1>2, <1>10, LegMoves
  <2>5. state # "fulfilled"
    BY <1>2, <2>1 DEF AwaitsItsLegs, InFlight
  <2>6. CASE \E l \in Names : phase[l] # "idle"
    <3>1. Second
      BY <1>4, <2>6
    <3>2. c # Origin /\ c \in Names
      BY <1>1, <2>1, <3>1 DEF Second, InFlight
    <3>3. ~Rejects(c)
      BY <3>2 DEF Rejects, Fails, Caught, Names
    <3>4. state = "pending"
      BY <2>5, <3>1 DEF Second
    <3>5. state' \in {"pending", "fulfilled"} /\ seen' = seen
      BY <2>4, <3>3, <3>4 DEF Fulfills, Fulfill, GoesOn, Keep, Unheeded
    <3>6. phase'[Origin] = "fulfilled"
      BY <1>1, <2>2, <3>1, <3>2 DEF Second
    <3> QED
      BY <1>6, <2>3, <3>1, <3>5, <3>6 DEF Told
  <2>7. CASE \A l \in Names : phase[l] = "idle"
    <3>1. c = Origin
      BY <1>1, <2>1, <2>7 DEF InFlight
    <3>2. AsksFor(c, "origin")
      BY <1>1, <3>1, AsnLegs
    <3>3. state' # "fulfilled"
      BY <2>4, <2>5, <3>2 DEF Rejects, Fulfills, GoesOn, Keep, Unheeded
    <3> QED
      BY <1>1, <1>5, <2>3, <2>7, <3>3
  <2> QED
    BY <2>6, <2>7
<1>11. CASE AskNames
  <2> DEFINE k == Kept(reply[Origin])
  <2>1. /\ state = "pending" /\ phase[Origin] = "fulfilled"
        /\ \A l \in Legs \ {Origin} : phase[l] = "idle"
        /\ \/ /\ k >= 1 /\ state' = "pending" /\ seen' = seen
              /\ \A l \in Calls : phase'[l] = IF l \in NamesOf(k) THEN "headers" ELSE phase[l]
           \/ state' = "rejected" /\ phase' = phase
    BY <1>1, <1>11, AskNamesSays DEF dohVars
  <2>2. CASE state' = "rejected"
    BY <1>1, <1>5, <2>1, <2>2
  <2>3. CASE state' # "rejected"
    <3>1. NamesOf(k) \subseteq Names /\ Kept(reply[Origin]) \in 0 .. Len(NameLegs)
      BY <1>1, KeptIsBounded, NamesAreCounted
    <3>2. reply[Origin] # NoReply /\ Told(Origin, reply[Origin])
      BY <1>1, <1>2, <2>1 DEF KeepsReplies
    <3>3. reply[Origin] \in AsViews
      BY <1>1, <1>2, <3>2 DEF TypeOK, ViewsOf
    <3>4. \A l \in Legs : phase'[l] # "idle" <=> l = Origin \/ l \in NamesOf(k)
      <4> HIDE DEF k
      <4> QED
        BY <1>1, <2>1, <2>3, <3>1
    <3>5. {l \in Legs : phase'[l] # "idle"} = {Origin} \cup NamesOf(k)
      <4> HIDE DEF k
      <4> QED
        BY <1>1, <3>1, <3>4
    <3>6. phase'[Origin] = "fulfilled"
      <4> HIDE DEF k
      <4> QED
        BY <1>1, <2>1, <2>3, <3>1
    <3>7. k >= 1 /\ seen' = seen /\ state' = "pending"
      BY <2>1, <2>3
    <3> QED
      BY <1>3, <3>2, <3>3, <3>5, <3>6, <3>7 DEF TwoRounds, Told
  <2> QED
    BY <2>2, <2>3
<1>12. ASSUME NEW r \in Resolvers, ViewChanges(r)
       PROVE  TwoRounds'
  BY <1>1, <1>2, <1>7, <1>12, SeenGrows DEF dohVars
<1>13. CASE TimePasses \/ UNCHANGED vars
  BY <1>7, <1>13 DEF TimePasses, Tick, vars, dohVars, toolVars, Told
<1> QED
  BY <1>8, <1>9, <1>10, <1>11, <1>12, <1>13 DEF Next

(* The records that lookupAsn returns are as many as the names it asked    *)
(* for, and as some resolver said.                                         *)
LEMMA AsnFulfills ==
  ASSUME ToolInv, tool = "asn", NEW c \in Calls, Step(c), Fulfills(c)
  PROVE  \E v \in AsViews :
           /\ Told(Origin, v) /\ Kept(v) \in 1 .. Len(NameLegs)
           /\ result' = [records |-> Kept(v),
                         named |-> Named(Replies(c))]
           /\ {l \in Legs : phase[l] # "idle"} = {Origin} \cup NamesOf(Kept(v))
<1>1. /\ tool \in Tools /\ c \in Legs /\ phase[c] # "idle" /\ TwoRounds
  BY LegMoves DEF ToolInv, TypeOK, InFlight
<1>2. c \in Names
  BY <1>1, AsnLegs DEF Fulfills
<1>3. PICK v \in AsViews : /\ Told(Origin, v) /\ Kept(v) >= 1
                               /\ {l \in Legs : phase[l] # "idle"} = {Origin} \cup NamesOf(Kept(v))
  BY <1>1, <1>2 DEF TwoRounds
<1>4. Kept(v) \in 0 .. Len(NameLegs) /\ Kept(v) \in 1 .. Len(NameLegs)
  BY <1>1, <1>3, KeptIsBounded, AsnLegs
<1>5. /\ IsFiniteSet(NamesOf(Kept(v))) /\ Cardinality(NamesOf(Kept(v))) = Kept(v)
      /\ Origin \notin NamesOf(Kept(v))
  BY <1>1, <1>4, NamesAreCounted, AsnLegs
<1>6. Cardinality({Origin} \cup NamesOf(Kept(v))) = Kept(v) + 1
  <2>1. {Origin} \cup NamesOf(Kept(v)) = NamesOf(Kept(v)) \cup {Origin}
    OBVIOUS
  <2> QED
    BY <1>5, <2>1, FS_AddElement
<1>7. result' = [records |-> Cardinality({l \in Legs : phase[l] # "idle"}) - 1,
                 named |-> Named(Replies(c))]
  BY DEF Fulfills, Fulfill
<1>8. Cardinality({l \in Legs : phase[l] # "idle"}) - 1 = Kept(v)
  <2>1. Cardinality({l \in Legs : phase[l] # "idle"}) = Kept(v) + 1
    BY <1>3, <1>6
  <2>2. Kept(v) \in Nat
    BY <1>4
  <2> QED
    BY <2>1, <2>2
<1> QED
  BY <1>3, <1>4, <1>7, <1>8

LEMMA ResultTyping ==
  ASSUME ToolInv, NEW c \in Calls, Step(c), Fulfills(c)
  PROVE  result' \in ResultsOf(tool)
<1>1. tool \in ToolNames
  BY LegsAreCalls DEF ToolInv, TypeOK
<1>2. CASE tool = "asn"
  BY <1>2, AsnFulfills DEF ResultsOf, Legs, Named
<1>3. CASE tool = "dnssec"
  BY <1>3 DEF Fulfills, Fulfill, ResultsOf, Status
<1>4. CASE tool \in {"propagation", "lookupAll"}
  BY <1>4 DEF Fulfills, Fulfill, ResultsOf
<1> QED
  BY <1>1, <1>2, <1>3, <1>4 DEF ToolNames

LEMMA TypingStep ==
  ASSUME ToolInv, [Next]_vars
  PROVE  TypeOK'
<1>1. /\ DohTypeOK /\ TypeOK /\ AwaitsItsLegs /\ KeepsReplies /\ DohInv /\ tool \in Tools
      /\ view \in [Resolvers -> ViewsOf(tool)] /\ changes \in 0 .. MaxChanges
      /\ state \in {"idle", "pending", "fulfilled", "rejected"}
      /\ reason \in ToolErrors \cup {NoError, "raw", "invalid_input", "not_found"}
      /\ reply \in [Calls -> ViewsOf(tool) \cup {NoReply}]
      /\ result \in IF state = "fulfilled" THEN ResultsOf(tool) ELSE {NoReply}
      /\ (state = "rejected") = (reason # NoError)
      /\ tool = "propagation" => reason \in {NoError, "invalid_input"}
      /\ seen \in [Resolvers -> SUBSET ViewsOf(tool)]
  BY DEF ToolInv, TypeOK
<1>2. DohTypeOK'
  BY <1>1, StepOfDoh, DohTypingStep
<1>3. tool' = tool
  BY SameTool
<1>4. CASE RefuseName
  <2>1. /\ state = "idle" /\ state' = "rejected" /\ reason' = "invalid_input"
        /\ UNCHANGED <<view, changes, reply, result, seen>>
    BY <1>4 DEF RefuseName
  <2> QED
    BY <1>1, <1>2, <1>3, <2>1 DEF TypeOK, NoError, ToolErrors
<1>5. CASE Invoke
  <2>1. /\ state = "idle" /\ state' = "pending" /\ seen' = [r \in Resolvers |-> {view[r]}]
        /\ UNCHANGED <<view, changes, reason, reply, result>>
    BY <1>5 DEF Invoke
  <2>2. seen' \in [Resolvers -> SUBSET ViewsOf(tool)]
    BY <1>1, <2>1
  <2> QED
    BY <1>1, <1>2, <1>3, <2>1, <2>2 DEF TypeOK
<1>6. ASSUME NEW c \in Calls, Step(c)
      PROVE  TypeOK'
  <2>1. UNCHANGED <<view, changes, tool>> /\ (Rejects(c) \/ Fulfills(c) \/ GoesOn(c) \/ Unheeded)
    BY <1>1, <1>6, LegMoves
  <2>2. CASE Rejects(c)
    <3>1. /\ state = "pending" /\ state' = "rejected" /\ reply' = Nothing
          /\ seen' = [r \in Resolvers |-> {}] /\ result' = result /\ tool # "propagation"
          /\ reason' = lastErr'[c] /\ phase'[c] = "rejected"
      BY <2>2 DEF Rejects, Fails, Caught
    <3>2. reason' \in ToolErrors \cup {"raw"}
      BY <1>1, <1>6, <3>1, LegMoves
    <3>3. Nothing \in [Calls -> ViewsOf(tool) \cup {NoReply}] /\ seen' \in [Resolvers -> SUBSET ViewsOf(tool)]
      BY <3>1 DEF Nothing
    <3> QED
      BY <1>1, <1>2, <2>1, <3>1, <3>2, <3>3 DEF TypeOK, ToolErrors, NoError
  <2>3. CASE Fulfills(c)
    <3>1. /\ state = "pending" /\ state' = "fulfilled" /\ reply' = Nothing /\ UNCHANGED <<reason, seen>>
      BY <2>3 DEF Fulfills, Fulfill, Nothing
    <3>2. Nothing \in [Calls -> ViewsOf(tool) \cup {NoReply}]
      BY DEF Nothing
    <3>3. result' \in ResultsOf(tool)
      BY <1>6, <2>3, ResultTyping
    <3> QED
      BY <1>1, <1>2, <2>1, <3>1, <3>2, <3>3 DEF TypeOK
  <2>4. CASE GoesOn(c)
    <3>1. state = "pending" /\ UNCHANGED <<state, reason, result, seen>> /\ reply' = Replies(c)
      BY <2>4 DEF GoesOn, Keep
    <3>2. reply' \in [Calls -> ViewsOf(tool) \cup {NoReply}]
      BY <1>1, <1>6, <3>1, RepliesAreTold
    <3> QED
      BY <1>1, <1>2, <2>1, <3>1, <3>2 DEF TypeOK
  <2>5. CASE Unheeded
    BY <1>1, <1>2, <2>1, <2>5 DEF TypeOK, Unheeded, Keep
  <2> QED
    BY <2>1, <2>2, <2>3, <2>4, <2>5
<1>7. CASE AskNames
  <2>1. /\ tool = "asn" /\ state = "pending" /\ UNCHANGED <<view, changes, result>>
        /\ \/ state' = "pending" /\ UNCHANGED <<reason, reply, seen>>
           \/ /\ state' = "rejected" /\ reason' = "not_found"
              /\ reply' = Nothing /\ seen' = [r \in Resolvers |-> {}]
    BY <1>1, <1>7, AskNamesSays
  <2>2. /\ Nothing \in [Calls -> ViewsOf(tool) \cup {NoReply}]
        /\ [r \in Resolvers |-> {}] \in [Resolvers -> SUBSET ViewsOf(tool)]
    BY DEF Nothing
  <2>3. CASE state' = "pending" /\ UNCHANGED <<reason, reply, seen>>
    BY <1>1, <1>2, <1>3, <2>1, <2>3 DEF TypeOK
  <2>4. CASE /\ state' = "rejected" /\ reason' = "not_found"
             /\ reply' = Nothing /\ seen' = [r \in Resolvers |-> {}]
    BY <1>1, <1>2, <1>3, <2>1, <2>2, <2>4 DEF TypeOK, NoError, ToolErrors
  <2> QED
    BY <2>1, <2>3, <2>4
<1>8. ASSUME NEW r \in Resolvers, ViewChanges(r)
      PROVE  TypeOK'
  <2>1. /\ UNCHANGED <<state, reason, reply, result>> /\ changes' \in 0 .. MaxChanges
        /\ view' \in [Resolvers -> ViewsOf(tool)] /\ seen' \in [Resolvers -> SUBSET ViewsOf(tool)]
    BY <1>1, <1>8, SeenGrows
  <2> QED
    BY <1>1, <1>2, <1>3, <2>1 DEF TypeOK
<1>9. CASE TimePasses \/ UNCHANGED vars
  BY <1>1, <1>2, <1>9 DEF TimePasses, vars, toolVars, TypeOK
<1> QED
  BY <1>4, <1>5, <1>6, <1>7, <1>8, <1>9 DEF Next

-----------------------------------------------------------------------------
(* What the tools report *)

(* A tool fulfills only in the step of a leg. *)
LEMMA OnlyFulfillsFulfills ==
  ASSUME ToolInv, [Next]_vars, state' = "fulfilled", ~UNCHANGED vars
  PROVE  \E c \in Calls : Step(c) /\ Fulfills(c)
<1>1. state # "fulfilled"
  BY FulfilledIsOver DEF ToolInv
<1>2. \A c \in Calls : Step(c) => Fulfills(c)
  BY <1>1, LegMoves DEF ToolInv, Rejects, GoesOn, Unheeded, Keep
<1>3. ~AskNames
  BY AskNamesSays DEF ToolInv, TypeOK
<1> QED
  BY <1>1, <1>2, <1>3 DEF Next, RefuseName, Invoke, ViewChanges, TimePasses, toolVars, vars

(* When a tool without a second round fulfills, it has caught the error or *)
(* kept the reply of every leg, and each reply was some resolver's view.   *)
LEMMA AllLegsSettled ==
  ASSUME ToolInv, tool # "asn", NEW c \in Calls, Step(c), Fulfills(c)
  PROVE  /\ \A l \in Legs : phase'[l] \in {"fulfilled", "rejected"}
         /\ \A l \in Legs : phase'[l] = "rejected" => Caught(l)
         /\ \A l \in Legs : phase'[l] = "fulfilled" <=> Replies(c)[l] # NoReply
         /\ \A l \in Legs : Replies(c)[l] # NoReply =>
              /\ Replies(c)[l] \in Views
              /\ \E i \in 1 .. Len(Chain(l)) : Replies(c)[l] \in seen'[Chain(l)[i]]
<1>1. /\ tool \in Tools /\ TypeOK /\ KeepsReplies /\ AwaitsItsLegs /\ DohInv
      /\ phase \in [Calls -> {"idle", "headers", "body", "fulfilled", "rejected"}]
      /\ Legs \subseteq Calls
  BY LegsAreCalls DEF ToolInv, TypeOK, DohTypeOK
<1>2. state = "pending" /\ ~Fails(c) /\ seen' = seen
  BY DEF Fulfills, Fulfill
<1>3. \A l \in Legs : ~AsksFor(l, "name")
  BY <1>1, LegsOfTools
<1>4. \A l \in Legs : phase'[l] \in {"fulfilled", "rejected"} \/ ~Awaited(l)
  BY Zenon DEF Fulfills
<1>5. \A l \in Legs : Awaited(l)
  BY <1>3 DEF Awaited
<1>6. \A l \in Legs : phase'[l] = "rejected" => Caught(l)
  <2>1. PICK p \in {"headers", "body", "fulfilled", "rejected"} : phase' = [phase EXCEPT ![c] = p]
    BY <1>1, LegMoves
  <2> QED
    BY <1>1, <1>2, <2>1 DEF Fails, AwaitsItsLegs
<1>7. /\ Replies(c) \in [Calls -> ViewsOf(tool) \cup {NoReply}]
      /\ \A l \in Calls : phase'[l] = "fulfilled" <=> Replies(c)[l] # NoReply
      /\ \A l \in Legs : Replies(c)[l] # NoReply => Told(l, Replies(c)[l])
  BY <1>1, <1>2, RepliesAreTold
<1>8. ViewsOf(tool) = Views
  BY DEF ViewsOf
<1> QED
  BY <1>1, <1>2, <1>4, <1>5, <1>6, <1>7, <1>8 DEF Told

LEMMA AskedOfLegs ==
  ASSUME NEW l \in Legs, NEW i \in 1 .. Len(Chain(l))
  PROVE  Chain(l)[i] \in Asked
  BY DEF Asked, AskedFor

LEMMA StatusStep ==
  ASSUME ToolInv, [Next]_vars
  PROVE  StatusWasSeen'
<1>1. CASE UNCHANGED vars
  <2>1. Asked' = Asked
    BY SameTool
  <2> QED
    BY <1>1, <2>1 DEF ToolInv, StatusWasSeen, vars, toolVars
<1> SUFFICES ASSUME tool = "dnssec", state' = "fulfilled", ~UNCHANGED vars
             PROVE  StatusWasSeen'
  BY <1>1, SameTool DEF StatusWasSeen
<1>2. PICK c \in Calls : Step(c) /\ Fulfills(c)
  BY OnlyFulfillsFulfills
<1> DEFINE soa == CHOOSE l \in Legs : AsksFor(l, "SOA")
           dnskey == CHOOSE l \in Legs : AsksFor(l, "DNSKEY")
           views == UNION {seen'[r] : r \in Asked}
           rep == Replies(c)
<1>3. soa \in Legs /\ dnskey \in Legs
  <2>1. \A type \in {"SOA", "DNSKEY"} : \E l \in Calls : LegsFor(tool, type) = {l}
    <3>1. {"SOA", "DNSKEY"} \subseteq TypesOf(tool) \ {"any", "name"} /\ tool \in Tools
      BY DEF TypesOf, ToolInv, TypeOK
    <3>2. \A t \in Tools : \A type \in TypesOf(t) \ {"any", "name"} :
            \E l \in Calls : LegsFor(t, type) = {l}
      BY ToolAssumption, Zenon DEF ToolAssumption
    <3> QED
      BY <3>1, <3>2, Zenon
  <2>2. \A type \in {"SOA", "DNSKEY"} : \E l \in Legs : AsksFor(l, type)
    BY <2>1 DEF LegsFor, AsksFor, Legs
  <2> QED
    BY <2>2
<1>4. \A l \in Legs : rep[l] \in Views /\ rep[l] \in views
  <2>1. \A l \in Legs : ~Caught(l)
    BY LegsOfTools DEF Caught, ToolInv, TypeOK
  <2> SUFFICES ASSUME NEW l \in Legs
               PROVE  rep[l] \in Views /\ rep[l] \in views
    OBVIOUS
  <2>2. rep[l] # NoReply
    BY <1>2, <2>1, AllLegsSettled
  <2>3. /\ rep[l] \in Views
        /\ \E i \in 1 .. Len(Chain(l)) : rep[l] \in seen'[Chain(l)[i]]
    BY <1>2, <2>2, AllLegsSettled
  <2> QED
    BY <2>3, AskedOfLegs
<1>5. result' = Status(rep)
  BY <1>2 DEF Fulfills, Fulfill
<1>6. Status(rep) = IF ~HasDnskeys(rep[dnskey]) THEN "unsigned"
                    ELSE IF AuthenticatedData(rep[soa]) THEN "secure" ELSE "signed-unvalidated"
  BY DEF Status
<1>7. rep[soa] \in views /\ rep[dnskey] \in views /\ rep[dnskey] \in Views
  BY <1>3, <1>4
<1> HIDE DEF views, rep, soa, dnskey
<1>8. /\ result' = "secure" => "secure" \in views
      /\ result' = "unsigned" => views \cap {"unsigned", "bogus"} # {}
      /\ result' = "signed-unvalidated" =>
           (\E v \in views : HasDnskeys(v)) /\ \E v \in views : ~AuthenticatedData(v)
  BY <1>5, <1>6, <1>7 DEF AuthenticatedData, HasDnskeys, Views
<1>9. Asked' = Asked
  BY SameTool
<1> QED
  BY <1>8, <1>9 DEF StatusWasSeen, views

LEMMA ConsistentStep ==
  ASSUME ToolInv, [Next]_vars
  PROVE  ConsistentMeansAgreement'
<1>1. CASE UNCHANGED vars
  <2>1. Asked' = Asked /\ Legs' = Legs
    BY SameTool
  <2> QED
    BY <1>1, <2>1 DEF ToolInv, ConsistentMeansAgreement, vars, toolVars, dohVars
<1> SUFFICES ASSUME tool = "propagation", state' = "fulfilled", ~UNCHANGED vars
             PROVE  ConsistentMeansAgreement'
  BY <1>1, SameTool DEF ConsistentMeansAgreement
<1>2. PICK c \in Calls : Step(c) /\ Fulfills(c)
  BY OnlyFulfillsFulfills
<1> DEFINE rep == Replies(c)
<1>3. result' = IF Consistent(rep) THEN "consistent" ELSE "divergent"
  BY <1>2 DEF Fulfills, Fulfill
<1>4. \A l \in Legs : Len(Chain(l)) = 1
  <2>1. \A l \in Legs : Opts[l].resolvers = Unset /\ Opts[l].resolver # Unset
    BY ToolAssumption DEF ToolAssumption, Legs, ToolInv, TypeOK
  <2> QED
    BY <2>1 DEF Chain
<1>5. Asked = {Chain(l)[1] : l \in Legs}
  BY <1>4 DEF Asked, AskedFor
<1>6. \A l \in Legs : /\ phase'[l] = "fulfilled" <=> rep[l] # NoReply
                      /\ rep[l] # NoReply => rep[l] \in Views /\ rep[l] \in seen'[Chain(l)[1]]
  BY <1>2, <1>4, AllLegsSettled
<1> HIDE DEF rep
<1>7. ASSUME Consistent(rep)
      PROVE  \E v \in Views : \A r \in Asked : \E w \in seen'[r] : Records(w) = Records(v)
  <2>1. CASE Legs = {}
    BY <1>5, <2>1 DEF Views
  <2>2. CASE Legs # {}
    <3>1. PICK m \in Legs : TRUE
      BY <2>2
    <3>2. \A l \in Legs : rep[l] # NoReply /\ Records(rep[l]) = Records(rep[m])
      BY <1>7, <3>1 DEF Consistent
    <3> QED
      BY <1>5, <1>6, <3>1, <3>2
  <2> QED
    BY <2>1, <2>2
<1>8. ASSUME \A l \in Legs : phase'[l] = "fulfilled",
             \E v \in Views : \A r \in Asked : seen'[r] = {v}
      PROVE  Consistent(rep)
  BY <1>5, <1>6, <1>8 DEF Consistent
<1>9. /\ result' = "consistent" => Consistent(rep)
      /\ Consistent(rep) => result' = "consistent"
  BY <1>3
<1>10. Asked' = Asked /\ Legs' = Legs
  BY SameTool
<1> QED
  BY <1>7, <1>8, <1>9, <1>10 DEF ConsistentMeansAgreement

LEMMA NamesStep ==
  ASSUME ToolInv, [Next]_vars
  PROVE  NamesAreBestEffort'
<1>1. CASE UNCHANGED vars
  <2>1. Asked' = Asked
    BY SameTool
  <2> QED
    BY <1>1, <2>1 DEF ToolInv, NamesAreBestEffort, vars, toolVars, dohVars
<1> SUFFICES ASSUME tool = "asn", ~UNCHANGED vars
             PROVE  NamesAreBestEffort'
  BY <1>1, SameTool DEF NamesAreBestEffort
<1>2. /\ tool \in Tools /\ TypeOK /\ DohTypeOK /\ KeepsReplies /\ TwoRounds /\ AwaitsItsLegs /\ DohInv
      /\ phase \in [Calls -> {"idle", "headers", "body", "fulfilled", "rejected"}]
      /\ NamesOf(Len(NameLegs)) = Names /\ Names \subseteq Legs /\ Legs \subseteq Calls
      /\ Names' = Names /\ Asked' = Asked
  BY AsnLegs, SameTool, LegsAreCalls DEF ToolInv, TypeOK, DohTypeOK, Names
<1>3. ASSUME state' = "rejected"
      PROVE  \A i \in 1 .. Len(NameLegs) : phase'[NameLegs[i]] = "idle"
  <2>1. ~(\E c \in Names : phase'[c] # "idle")
    BY <1>2, <1>3, RoundsStep, SameTool DEF TwoRounds
  <2> QED
    BY <1>2, <2>1 DEF NamesOf
<1>4. ASSUME state' = "fulfilled"
      PROVE  /\ \E r \in Asked : \E v \in seen'[r] : Kept(v) = result'.records
             /\ result'.named \subseteq NamesOf(result'.records)
             /\ \A c \in NamesOf(result'.records) :
                  \/ /\ phase'[c] = "fulfilled"
                     /\ \E r \in AskedFor(c) : \E v \in seen'[r] : c \in v.named <=> c \in result'.named
                  \/ phase'[c] = "rejected" /\ c \notin result'.named
  <2>1. PICK c \in Calls : Step(c) /\ Fulfills(c)
    BY <1>4, OnlyFulfillsFulfills
  <2>2. state = "pending" /\ seen' = seen
    BY <2>1 DEF Fulfills, Fulfill
  <2>3. PICK v \in AsViews :
           /\ Told(Origin, v) /\ Kept(v) \in 1 .. Len(NameLegs)
           /\ result' = [records |-> Kept(v),
                         named |-> Named(Replies(c))]
           /\ {l \in Legs : phase[l] # "idle"} = {Origin} \cup NamesOf(Kept(v))
    BY <2>1, AsnFulfills
  <2>4. \E r \in Asked : \E w \in seen'[r] : Kept(w) = result'.records
    <3>1. PICK i \in 1 .. Len(Chain(Origin)) : v \in seen[Chain(Origin)[i]]
      BY <2>3 DEF Told
    <3>2. Chain(Origin)[i] \in Asked
      BY <1>2, AsnLegs, AskedOfLegs
    <3> QED
      BY <2>2, <2>3, <3>1, <3>2
  <2>5. \A l \in Legs : l \in result'.named <=>
          AsksFor(l, "name") /\ Replies(c)[l] # NoReply /\ l \in Replies(c)[l].named
    BY <2>3 DEF Named
  <2>6. result'.named \subseteq Legs /\ result'.records = Kept(v)
    BY <2>3 DEF Named
  <2>7. \A l \in Legs : phase'[l] = "fulfilled" <=> Replies(c)[l] # NoReply
    BY <1>2, <2>1, <2>2, RepliesAreTold
  <2>8. PICK p \in {"headers", "body", "fulfilled", "rejected"} : phase' = [phase EXCEPT ![c] = p]
    BY <1>2, <2>1, LegMoves
  <2>9. \A l \in Legs : phase'[l] = "fulfilled" => phase[l] # "idle"
    <3>1. phase[c] # "idle"
      BY <1>2, <2>1, LegMoves DEF InFlight
    <3> QED
      BY <1>2, <2>8, <3>1
  <2>10. result'.named \subseteq NamesOf(Kept(v))
    <3> SUFFICES ASSUME NEW l \in result'.named
                 PROVE  l \in NamesOf(Kept(v))
      OBVIOUS
    <3>1. l \in Legs /\ AsksFor(l, "name") /\ phase[l] # "idle"
      BY <2>5, <2>6, <2>7, <2>9
    <3>2. l # Origin
      BY <1>2, <3>1, AsnLegs DEF Names
    <3> QED
      BY <2>3, <3>1, <3>2
  <2>11. ASSUME NEW l \in NamesOf(Kept(v))
         PROVE  \/ /\ phase'[l] = "fulfilled"
                   /\ \E r \in AskedFor(l) : \E w \in seen'[r] : l \in w.named <=> l \in result'.named
                \/ phase'[l] = "rejected" /\ l \notin result'.named
    <3>1. l \in Names /\ l \in Legs /\ AsksFor(l, "name") /\ phase[l] # "idle"
      BY <1>2, <2>3, NamesAreCounted DEF Names
    <3>2. \A m \in Legs : phase'[m] \in {"fulfilled", "rejected"} \/ ~Awaited(m)
      BY <2>1, Zenon DEF Fulfills
    <3>3. phase'[l] \in {"fulfilled", "rejected"}
      BY <3>1, <3>2 DEF Awaited
    <3>4. CASE phase'[l] = "fulfilled"
      <4>1. Replies(c)[l] # NoReply /\ Told(l, Replies(c)[l])
        BY <1>2, <2>1, <2>2, <2>7, <3>1, <3>4, RepliesAreTold
      <4>2. l \in Replies(c)[l].named <=> l \in result'.named
        BY <2>5, <3>1, <4>1
      <4>3. PICK i \in 1 .. Len(Chain(l)) : Replies(c)[l] \in seen[Chain(l)[i]]
        BY <4>1 DEF Told
      <4>4. Chain(l)[i] \in AskedFor(l)
        BY DEF AskedFor
      <4> QED
        BY <2>2, <3>4, <4>2, <4>3, <4>4
    <3>5. CASE phase'[l] = "rejected"
      <4>1. l \notin result'.named
        BY <2>5, <2>7, <3>1, <3>5
      <4> QED
        BY <3>5, <4>1
    <3> QED
      BY <3>3, <3>4, <3>5
  <2> QED
    BY <2>4, <2>6, <2>10, <2>11
<1> QED
  BY <1>2, <1>3, <1>4 DEF NamesAreBestEffort

LEMMA ToolInvStep ==
  ASSUME ToolInv, [Next]_vars
  PROVE  ToolInv'
<1>1. DohInv'
  BY StepOfDoh, DohInvStep DEF ToolInv, TypeOK
<1> QED
  BY <1>1, TypingStep, AwaitsStep, KeepsStep, RoundsStep, StatusStep, ConsistentStep, NamesStep
     DEF ToolInv

LEMMA ToolInvInit == Init => ToolInv
<1> SUFFICES ASSUME Init
             PROVE  ToolInv
  OBVIOUS
<1>1. tool \in Tools /\ state = "idle" /\ DohInit
  BY DEF Init
<1>2. DohInv
  BY <1>1 DEF DohInit, DohInv, DohTypeOK, AttemptsInTime, IdleAtHead, PassedOverAreDown,
              ToolErrorAfterWholeChain, InFlight, NoError
<1>3. AwaitsItsLegs /\ KeepsReplies /\ StatusWasSeen /\ ConsistentMeansAgreement
  BY <1>1, LegsAreCalls
     DEF Init, DohInit, AwaitsItsLegs, KeepsReplies, StatusWasSeen, ConsistentMeansAgreement, Nothing
<1>4. TwoRounds /\ NamesAreBestEffort
  BY <1>1, LegsAreCalls DEF DohInit, TwoRounds, NamesAreBestEffort, Names
<1>5. TypeOK
  <2>1. MaxChanges \in Nat
    BY ToolAssumption DEF ToolAssumption
  <2> QED
    BY <1>1, <1>2, <2>1 DEF Init, TypeOK, DohInv, NoError, ToolErrors
<1> QED
  BY <1>2, <1>3, <1>4, <1>5 DEF ToolInv

LEMMA ToolInvariance == Spec => []ToolInv
  BY ToolInvInit, ToolInvStep, PTL DEF Spec

(* A tool is rejected exactly when it has a reason, fulfilled exactly when *)
(* it has a result of its kind, and checkPropagation is rejected for no    *)
(* resolver's sake.                                                        *)
THEOREM ToolTyping == Spec => []TypeOK
  BY ToolInvariance, PTL DEF ToolInv

(* For any chain of resolvers and however their views change meanwhile:    *)
(* what checkDnssec reports was some resolver's view, in each of its parts. *)
THEOREM StatusSeen == Spec => []StatusWasSeen
  BY ToolInvariance, PTL DEF ToolInv

(* For any number of resolvers: `consistent' means that all of them        *)
(* answered and held the common records at some time of the check.         *)
THEOREM Agreement == Spec => []ConsistentMeansAgreement
  BY ToolInvariance, PTL DEF ToolInv

(* For any bound on the names: a record has its name exactly as one of the *)
(* resolvers asked for it had it, and a name that cannot be resolved, or   *)
(* that no answer gives, costs no more than itself.                        *)
THEOREM BestEffort == Spec => []NamesAreBestEffort
  BY ToolInvariance, PTL DEF ToolInv

-----------------------------------------------------------------------------
(* Largest numbers *)

(* The order of the natural numbers is well-founded ... *)
LEMMA LessIsWellFounded ==
  \E R : IsWellFoundedOn(R, Nat) /\ \A x, y \in Nat : x < y => <<x, y>> \in R
<1> DEFINE R == OpToRel(<, Nat)
<1>1. IsWellFoundedOn(R, Nat)
  BY NatLessThanWellFounded
<1>2. \A x, y \in Nat : x < y => <<x, y>> \in R
  BY DEF OpToRel
<1> HIDE DEF R
<1> QED
  BY <1>1, <1>2

(* ... so what holds of some number holds of a least one. *)
LEMMA LeastNatural ==
  ASSUME NEW S \in SUBSET Nat, S # {}
  PROVE  \E m \in S : \A k \in S : m <= k
<1>1. PICK R : IsWellFoundedOn(R, Nat) /\ \A x, y \in Nat : x < y => <<x, y>> \in R
  BY LessIsWellFounded
<1>2. IsWellFoundedOn(R, Nat) /\ S \subseteq Nat /\ S # {}
  BY <1>1
<1>3. \E x \in S : \A y \in S : ~(<<y, x>> \in R)
  <2>1. IsWellFoundedOn(R, Nat)
    BY <1>2
  <2>2. S \subseteq Nat /\ S # {}
    BY <1>2
  <2> QED
    BY <2>1, <2>2, WFMin
<1>4. PICK m \in S : \A k \in S : ~(<<k, m>> \in R)
  BY <1>3
<1>5. \A k \in S : ~(k < m)
  BY <1>1, <1>4
<1> QED
  BY <1>4, <1>5

(* A finite set of numbers has a largest: the one that fewest are above.   *)
LEMMA LargestNatural ==
  ASSUME NEW S \in SUBSET Nat, IsFiniteSet(S), S # {}
  PROVE  \E m \in S : \A k \in S : k <= m
<1> DEFINE Above(x) == {y \in S : y > x}
           counts == {Cardinality(Above(x)) : x \in S}
<1>1. \A x \in S : IsFiniteSet(Above(x)) /\ Cardinality(Above(x)) \in Nat
  <2>1. \A x \in S : IsFiniteSet(Above(x))
    BY FS_Subset
  <2> QED
    BY <2>1, FS_CardinalityType
<1>2. counts \in SUBSET Nat /\ counts # {}
  BY <1>1
<1>3. PICK n \in counts : \A j \in counts : n <= j
  <2> HIDE DEF counts
  <2> QED
    BY <1>2, LeastNatural
<1>4. PICK m \in S : n = Cardinality(Above(m))
  OBVIOUS
<1>5. ASSUME NEW k \in S, ~(k <= m)
      PROVE  FALSE
  <2>1. k \in Above(m) /\ k \notin Above(k) /\ Above(k) \subseteq Above(m)
    <3>1. k \in Nat /\ m \in Nat /\ k > m
      BY <1>5
    <3>2. \A y \in S : y \in Nat /\ (y > k => y > m)
      BY <3>1
    <3>3. k \in Above(m) /\ ~(k > k)
      BY <3>1
    <3>4. Above(k) \subseteq Above(m)
      BY <3>2
    <3> QED
      BY <3>3, <3>4
  <2>2. Cardinality(Above(k)) < Cardinality(Above(m))
    <3>1. Above(k) # Above(m)
      BY <2>1
    <3> HIDE DEF Above
    <3>2. Cardinality(Above(k)) <= Cardinality(Above(m)) /\ Cardinality(Above(k)) # Cardinality(Above(m))
      BY <1>1, <2>1, <3>1, FS_Subset
    <3>3. Cardinality(Above(k)) \in Nat /\ Cardinality(Above(m)) \in Nat
      BY <1>1
    <3>4. \A a, b \in Nat : a <= b /\ a # b => a < b
      OBVIOUS
    <3> QED
      BY <3>2, <3>3, <3>4, Zenon
  <2>3. Cardinality(Above(m)) <= Cardinality(Above(k))
    BY <1>3, <1>4
  <2> HIDE DEF Above
  <2> QED
    BY <1>1, <2>2, <2>3
<1> QED
  BY <1>5

LEMMA SlowestIsSlowest ==
  ASSUME NEW legs \in SUBSET Calls
  PROVE  /\ Slowest(legs) \in Nat
         /\ \A c \in legs : Len(Chain(c)) * Timeout(c) <= Slowest(legs)
<1> DEFINE b(c) == Len(Chain(c)) * Timeout(c)
           budgets == {b(c) : c \in legs} \cup {0}
<1>1. \A c \in legs : b(c) \in Nat
  <2>1. \A c \in legs : Len(Chain(c)) \in Nat /\ Timeout(c) \in Nat
    BY AllFetch
  <2>2. \A n, t \in Nat : n * t \in Nat
    OBVIOUS
  <2> QED
    BY <2>1, <2>2
<1>2. budgets \in SUBSET Nat /\ budgets # {}
  BY <1>1
<1>3. IsFiniteSet(budgets)
  <2>1. IsFiniteSet(legs)
    BY ToolAssumption, FS_Subset DEF ToolAssumption
  <2> DEFINE f == [c \in legs |-> b(c)]
  <2>2. f \in Surjection(legs, {b(c) : c \in legs})
    BY DEF Surjection
  <2>3. IsFiniteSet({b(c) : c \in legs})
    BY <2>1, <2>2, FS_Surjection
  <2> QED
    BY <2>3, FS_AddElement
<1>4. \E m \in budgets : \A x \in budgets : x <= m
  <2> HIDE DEF budgets
  <2> QED
    BY <1>2, <1>3, LargestNatural
<1>5. Slowest(legs) = CHOOSE m \in budgets : \A x \in budgets : x <= m
  BY DEF Slowest
<1>6. Slowest(legs) \in budgets /\ \A x \in budgets : x <= Slowest(legs)
  BY <1>4, <1>5
<1> QED
  BY <1>2, <1>6

-----------------------------------------------------------------------------
(* The tool as one promise *)

(* The first round begins with the call, the second when the first has had *)
(* its time at most.                                                       *)
RoundsInTime ==
  /\ \A c \in FirstLegs : startedAt[c] = 0
  /\ \A c \in Names : startedAt[c] <= Slowest(FirstLegs)
  /\ tool = "asn" /\ state = "pending" /\ phase[Origin] = "fulfilled"
       /\ (\A c \in Names : phase[c] = "idle")
     => now <= Slowest(FirstLegs)

LEMMA BudgetIsOfRounds ==
  ASSUME tool \in Tools
  PROVE  /\ BudgetOf(tool) = Slowest(FirstLegs) + Slowest(Names)
         /\ Slowest(FirstLegs) \in Nat /\ Slowest(Names) \in Nat
<1>1. LegsFor(tool, "name") = Names /\ LegsOf(tool) \ Names = FirstLegs
  BY DEF LegsFor, Names, FirstLegs, AsksFor, Legs
<1>2. FirstLegs \in SUBSET Calls /\ Names \in SUBSET Calls
  BY LegsAreCalls DEF Names
<1> QED
  BY <1>1, <1>2, SlowestIsSlowest DEF BudgetOf

(* A leg that is in flight has time left, and its tool has more. *)
LEMMA LegsInTime ==
  ASSUME ToolInv, RoundsInTime, NEW c \in Calls, InFlight(c)
  PROVE  /\ now \in Nat /\ deadline[c] \in Nat /\ now <= deadline[c]
         /\ c \in FirstLegs => deadline[c] <= Slowest(FirstLegs)
         /\ deadline[c] <= BudgetOf(tool)
<1>1. /\ now \in Nat /\ deadline[c] \in Nat /\ startedAt[c] \in Nat
      /\ Len(Chain(c)) * Timeout(c) \in Nat /\ now <= deadline[c]
      /\ deadline[c] <= startedAt[c] + Len(Chain(c)) * Timeout(c)
  BY WithinBudget DEF ToolInv
<1>2. /\ tool \in Tools /\ FirstLegs \in SUBSET Calls /\ Names \in SUBSET Calls
      /\ c \in FirstLegs \/ c \in Names
  BY LegsAreCalls, LegsOfTools DEF ToolInv, TypeOK, AwaitsItsLegs, InFlight, Names
<1>3. /\ BudgetOf(tool) = Slowest(FirstLegs) + Slowest(Names)
      /\ Slowest(FirstLegs) \in Nat /\ Slowest(Names) \in Nat
  BY <1>2, BudgetIsOfRounds
<1> DEFINE b == Len(Chain(c)) * Timeout(c)
<1>4. /\ c \in FirstLegs => b <= Slowest(FirstLegs) /\ startedAt[c] = 0
      /\ c \in Names => b <= Slowest(Names) /\ startedAt[c] <= Slowest(FirstLegs)
  BY <1>2, SlowestIsSlowest DEF RoundsInTime
<1>5. b \in Nat /\ deadline[c] <= startedAt[c] + b
  BY <1>1
<1> HIDE DEF b
<1> QED
  BY <1>1, <1>2, <1>3, <1>4, <1>5

LEMMA RoundsInTimeStep ==
  ASSUME ToolInv, RoundsInTime, [Next]_vars
  PROVE  RoundsInTime'
<1>1. /\ tool \in Tools /\ DohTypeOK /\ DohInv /\ TypeOK /\ AwaitsItsLegs
      /\ phase \in [Calls -> {"idle", "headers", "body", "fulfilled", "rejected"}]
      /\ startedAt \in [Calls -> Nat] /\ now \in Nat
      /\ FirstLegs \subseteq Calls /\ Names \subseteq Calls /\ Slowest(FirstLegs) \in Nat
  BY LegsAreCalls, BudgetIsOfRounds DEF ToolInv, TypeOK, DohTypeOK, Names
<1>2. tool' = tool /\ FirstLegs' = FirstLegs /\ Names' = Names /\ Origin' = Origin
  BY SameTool
<1>3. Slowest(FirstLegs)' = Slowest(FirstLegs)
  BY <1>2 DEF Slowest
<1>4. tool = "asn" =>
        /\ Origin \in Calls /\ FirstLegs = {Origin} /\ Legs = {Origin} \cup Names /\ Origin \notin Names
  BY <1>1, AsnLegs
<1>5. ASSUME startedAt' = startedAt,
             ~(/\ tool = "asn" /\ state' = "pending" /\ phase'[Origin] = "fulfilled"
               /\ \A c \in Names : phase'[c] = "idle")
             \/ now' <= Slowest(FirstLegs)
      PROVE  RoundsInTime'
  BY <1>2, <1>3, <1>5 DEF RoundsInTime
<1>6. CASE RefuseName \/ (\E r \in Resolvers : ViewChanges(r)) \/ UNCHANGED vars
  <2>1. UNCHANGED <<startedAt, now, phase>> /\ (state' = state \/ state' = "rejected")
    BY <1>6 DEF RefuseName, ViewChanges, vars, dohVars, toolVars
  <2> QED
    BY <1>5, <2>1 DEF RoundsInTime
<1>7. CASE Invoke
  <2>1. /\ now = 0 /\ now' = now
        /\ \A c \in Calls : startedAt'[c] = IF c \in FirstLegs THEN now ELSE startedAt[c]
    BY <1>1, <1>7 DEF Invoke, AwaitsItsLegs, Begin
  <2>2. tool = "asn" => phase'[Origin] # "fulfilled"
    BY <1>1, <1>4, <1>7, InvokeSends
  <2>3. \A c \in Names : startedAt'[c] <= Slowest(FirstLegs)
    BY <1>1, <2>1 DEF RoundsInTime
  <2>4. \A c \in FirstLegs : startedAt'[c] = 0
    BY <1>1, <2>1
  <2> QED
    BY <1>2, <1>3, <2>2, <2>3, <2>4 DEF RoundsInTime
<1>8. ASSUME NEW c \in Calls, Step(c)
      PROVE  RoundsInTime'
  <2>1. c \in Legs /\ InFlight(c) /\ UNCHANGED <<now, startedAt>>
    BY <1>1, <1>8, LegMoves
  <2>2. PICK p \in {"headers", "body", "fulfilled", "rejected"} : phase' = [phase EXCEPT ![c] = p]
    BY <1>1, <1>8, LegMoves
  <2>3. c \in FirstLegs => now <= Slowest(FirstLegs)
    BY <1>1, <2>1, LegsInTime
  <2>4. CASE tool = "asn" /\ c \in Names
    <3>1. phase'[c] # "idle"
      BY <1>1, <2>2
    <3> QED
      BY <1>5, <2>1, <2>4, <3>1
  <2>5. CASE tool = "asn" /\ c \in FirstLegs
    BY <1>5, <2>1, <2>3, <2>5
  <2> QED
    BY <1>4, <1>5, <2>1, <2>4, <2>5
<1>9. CASE AskNames
  <2> DEFINE k == Kept(reply[Origin])
  <2>1. /\ tool = "asn" /\ state = "pending" /\ phase[Origin] = "fulfilled" /\ now' = now
        /\ \A c \in Legs \ {Origin} : phase[c] = "idle"
        /\ \/ /\ k >= 1
              /\ \A c \in Calls : phase'[c] = IF c \in NamesOf(k) THEN "headers" ELSE phase[c]
              /\ \A c \in Calls : startedAt'[c] = IF c \in NamesOf(k) THEN now ELSE startedAt[c]
           \/ state' = "rejected" /\ startedAt' = startedAt
    BY <1>1, <1>9, AskNamesSays DEF dohVars
  <2>2. now <= Slowest(FirstLegs)
    BY <1>4, <2>1 DEF RoundsInTime
  <2>3. NamesOf(k) \subseteq Names
    BY <1>1, <2>1, KeptIsBounded, NamesAreCounted
  <2>4. CASE state' = "rejected" /\ startedAt' = startedAt
    BY <1>5, <2>4
  <2>5. CASE /\ k >= 1
             /\ \A c \in Calls : phase'[c] = IF c \in NamesOf(k) THEN "headers" ELSE phase[c]
             /\ \A c \in Calls : startedAt'[c] = IF c \in NamesOf(k) THEN now ELSE startedAt[c]
    <3> HIDE DEF k
    <3>1. \A c \in FirstLegs : startedAt'[c] = 0
      BY <1>1, <1>4, <2>1, <2>3, <2>5 DEF RoundsInTime
    <3>2. \A c \in Names : startedAt'[c] <= Slowest(FirstLegs)
      BY <1>1, <2>2, <2>5 DEF RoundsInTime
    <3> QED
      BY <1>2, <1>3, <2>1, <2>2, <3>1, <3>2 DEF RoundsInTime
  <2> QED
    BY <2>1, <2>4, <2>5
<1>10. CASE TimePasses
  <2>1. UNCHANGED <<startedAt, phase, state>> /\ \E c \in Calls : InFlight(c)
    BY <1>10 DEF TimePasses, Tick, toolVars
  <2>2. \A c \in Calls : InFlight(c) => c \in Legs
    BY <1>1 DEF AwaitsItsLegs, InFlight
  <2>3. tool = "asn" => phase[Origin] # "fulfilled" \/ \E c \in Names : phase[c] # "idle"
    BY <1>4, <2>1, <2>2 DEF InFlight
  <2> QED
    BY <1>5, <2>1, <2>3
<1> QED
  BY <1>6, <1>7, <1>8, <1>9, <1>10 DEF Next

LEMMA StepIsPromised ==
  ASSUME ToolInv, RoundsInTime, [Next]_vars
  PROVE  [ToolPromise!Next]_(ToolPromise!vars)
<1> DEFINE seenAs == [t \in Tools |-> IF t = tool THEN state ELSE "idle"]
           nil == [t \in Tools |-> 0]
           budget == [t \in Tools |-> BudgetOf(t)]
<1>1. /\ tool \in Tools /\ DohInv /\ TypeOK /\ DohTypeOK /\ AwaitsItsLegs /\ tool' = tool
      /\ state \in {"idle", "pending", "fulfilled", "rejected"}
  BY SameTool DEF ToolInv, TypeOK
<1>0. PICK me \in Tools : me = tool
  BY <1>1
<1>2. seenAs' = [t \in Tools |-> IF t = tool THEN state' ELSE "idle"]
  BY <1>1
<1>3. ASSUME state' = state, now' = now
      PROVE  UNCHANGED ToolPromise!vars
  BY <1>1, <1>3 DEF ToolPromise!vars
<1>4. ASSUME state = "pending", state' \in {"fulfilled", "rejected"}, now' = now
      PROVE  ToolPromise!Settle(me)
  <2>1. seenAs[me] = "pending" /\ seenAs' = [seenAs EXCEPT ![me] = state']
    BY <1>0, <1>1, <1>2, <1>4
  <2> QED
    BY <1>4, <2>1 DEF ToolPromise!Settle, ToolPromise!Settled
<1>5. ASSUME state = "idle", now = 0, state' \in {"pending", "rejected"}, now' = now
      PROVE  ToolPromise!Start({me})
  <2>1. \A t \in {me} : seenAs[t] = "idle"
    BY <1>0, <1>1, <1>5
  <2>2. nil = [t \in Tools |-> IF t \in {me} THEN now ELSE nil[t]]
    BY <1>5
  <2>3. seenAs' \in [Tools -> ToolPromise!States]
    BY <1>2, <1>5 DEF ToolPromise!States, ToolPromise!Settled
  <2>4. \A t \in Tools : IF t \in {me} THEN seenAs'[t] # "idle" ELSE seenAs'[t] = seenAs[t]
    BY <1>0, <1>2, <1>5
  <2> HIDE DEF nil, seenAs
  <2>5. /\ {me} # {} /\ now' = now
        /\ \A t \in {me} : seenAs[t] = "idle"
        /\ nil' = [t \in Tools |-> IF t \in {me} THEN now ELSE nil[t]]
        /\ seenAs' \in [Tools -> ToolPromise!States]
        /\ \A t \in Tools : IF t \in {me} THEN seenAs'[t] # "idle" ELSE seenAs'[t] = seenAs[t]
    BY <1>5, <2>1, <2>2, <2>3, <2>4 DEF nil
  <2> QED
    BY <2>5 DEF ToolPromise!Start, nil, seenAs
<1>6. CASE TimePasses
  <2>1. now' = now + 1 /\ state' = state /\ \E c \in Calls : InFlight(c) /\ now < deadline[c]
    BY <1>6 DEF TimePasses, Tick, toolVars
  <2>2. now < 0 + BudgetOf(tool)
    <3>1. PICK c \in Calls : InFlight(c) /\ now < deadline[c]
      BY <2>1
    <3>2. now \in Nat /\ deadline[c] \in Nat /\ deadline[c] <= BudgetOf(tool)
      BY <3>1, LegsInTime
    <3>3. BudgetOf(tool) \in Nat
      BY <1>1, BudgetIsOfRounds
    <3> QED
      BY <3>1, <3>2, <3>3
  <2>3. \A t \in Tools : seenAs[t] = "pending" => now < nil[t] + budget[t]
    BY <2>2
  <2>4. seenAs' = seenAs
    BY <1>2, <2>1
  <2> HIDE DEF seenAs
  <2>5. nil' = nil
    OBVIOUS
  <2> HIDE DEF nil, budget
  <2>6. /\ \A t \in Tools : seenAs[t] = "pending" => now < nil[t] + budget[t]
        /\ now' = now + 1 /\ UNCHANGED <<nil, seenAs>>
    BY <2>1, <2>3, <2>4, <2>5
  <2> QED
    BY <2>6, Zenon DEF ToolPromise!Next, ToolPromise!Tick, nil, budget, seenAs
<1>7. CASE RefuseName \/ Invoke
  <2>1. state = "idle" /\ state' \in {"pending", "rejected"} /\ now' = now
    BY <1>7 DEF RefuseName, Invoke, Begin, dohVars
  <2>2. now = 0
    BY <1>1, <2>1 DEF AwaitsItsLegs
  <2>3. {me} \in SUBSET Tools
    OBVIOUS
  <2> QED
    BY <1>5, <2>1, <2>2, <2>3 DEF ToolPromise!Next
<1>8. ASSUME NEW c \in Calls, Step(c)
      PROVE  [ToolPromise!Next]_(ToolPromise!vars)
  <2>1. now' = now /\ (Rejects(c) \/ Fulfills(c) \/ GoesOn(c) \/ Unheeded)
    BY <1>1, <1>8, LegMoves
  <2>2. state' = state \/ (state = "pending" /\ state' \in {"fulfilled", "rejected"})
    BY <2>1 DEF Rejects, Fulfills, Fulfill, GoesOn, Unheeded, Keep
  <2> QED
    BY <1>1, <1>3, <1>4, <2>1, <2>2 DEF ToolPromise!Next
<1>9. CASE AskNames
  <2>1. now' = now /\ state = "pending" /\ state' \in {"pending", "rejected"}
    BY <1>1, <1>9, AskNamesSays
  <2> QED
    BY <1>1, <1>3, <1>4, <2>1 DEF ToolPromise!Next
<1>10. CASE (\E r \in Resolvers : ViewChanges(r)) \/ UNCHANGED vars
  <2>1. state' = state /\ now' = now
    BY <1>10 DEF ViewChanges, vars, dohVars, toolVars
  <2> QED
    BY <1>3, <2>1
<1> QED
  BY <1>6, <1>7, <1>8, <1>9, <1>10 DEF Next

(* Whatever legs a tool has and however they fail: its promise settles     *)
(* once, within the budget of the slowest leg of each round.               *)
THEOREM ToolRefinement == Spec => ToolImplementsLookup
<1>1. Init => ToolPromise!Init
  BY DEF Init, DohInit, ToolPromise!Init
<1>2. Init => RoundsInTime
  <2> SUFFICES ASSUME Init
               PROVE  RoundsInTime
    OBVIOUS
  <2>1. tool \in Tools /\ state = "idle" /\ startedAt = [c \in Calls |-> 0]
    BY DEF Init, DohInit
  <2>2. FirstLegs \subseteq Calls /\ Names \subseteq Calls /\ Slowest(FirstLegs) \in Nat
    BY <2>1, LegsAreCalls, BudgetIsOfRounds DEF Names
  <2> QED
    BY <2>1, <2>2 DEF RoundsInTime
<1>3. ToolInv /\ RoundsInTime /\ [Next]_vars => RoundsInTime' /\ [ToolPromise!Next]_(ToolPromise!vars)
  BY RoundsInTimeStep, StepIsPromised
<1> QED
  BY <1>1, <1>2, <1>3, ToolInvariance, PTL DEF Spec, ToolImplementsLookup, ToolPromise!Spec

=============================================================================

------------------------------ MODULE SpfWalk -------------------------------
(***************************************************************************)
(* analyzeSpf (email/spf.ts): the recursive count of the DNS-querying terms *)
(* of an SPF policy across include and redirect.  Each recursion awaits a  *)
(* TXT lookup that may fail; policies may include each other in cycles.    *)
(* The recursion is a stack of the terms each call of `walk' has left.     *)
(***************************************************************************)
EXTENDS Integers, SequencesExt

CONSTANTS
  Domains,   \* lower-case domain names, finitely many since they are short
  Root,      \* the domain that is analysed
  Policies,  \* the parsed policies a domain may publish
  NoPolicy,  \* no SPF record
  Nowhere,   \* no domain
  Limit      \* 10

(* What parseMechanisms keeps of a term here: whether it counts as a       *)
(* lookup, and the domain that an include or redirect with a value names.  *)
Terms ==
  {t \in [counts : BOOLEAN, target : Domains \cup {Nowhere}] : t.target # Nowhere => t.counts}

ASSUME SpfAssumption ==
  /\ Root \in Domains /\ Nowhere \notin Domains
  /\ IsFiniteSet(Domains)
  /\ Policies \subseteq Seq(Terms)
  /\ Limit \in Nat

VARIABLES
  published,   \* published[d]: the policy of domain d
  phase,       \* "asking": a TXT lookup is awaited
  asking,      \* the domain it is for
  stack,       \* the terms that the calls of walk have left, innermost first
  total, exceeded, seen,   \* the variables of analyzeSpf
  asked        \* the domains looked up, in order (history)

vars == <<published, phase, asking, stack, total, exceeded, seen, asked>>

TypeOK ==
  /\ published \in [Domains -> Policies \cup {NoPolicy}]
  /\ phase \in {"asking", "walking", "no record", "answered", "failed"}
  /\ asking \in Domains \cup {Nowhere}
  /\ stack \in Seq(Seq(Terms))
  /\ total \in 0 .. Limit + 1
  /\ exceeded \in BOOLEAN
  /\ seen \in SUBSET Domains
  /\ asked \in Seq(Domains)

Start ==
  /\ phase = "asking" /\ asking = Root
  /\ stack = <<>>
  /\ total = 0 /\ exceeded = FALSE
  /\ seen = {Root}
  /\ asked = <<Root>>

-----------------------------------------------------------------------------

(* getRecord returns: the policy found is walked; a domain without one     *)
(* ends the analysis if it is the root, and is passed over if it is not.   *)
TxtArrives ==
  /\ phase = "asking"
  /\ LET policy == published[asking]
     IN IF policy # NoPolicy THEN phase' = "walking" /\ stack' = Cons(policy, stack)
        ELSE /\ phase' = IF stack = <<>> THEN "no record" ELSE "walking"
             /\ UNCHANGED stack
  /\ asking' = Nowhere
  /\ UNCHANGED <<published, total, exceeded, seen, asked>>

(* A plausible slip: a lookup that failed is taken for one without a       *)
(* policy.                                                                 *)
TxtFails_Caught ==
  /\ phase = "asking"
  /\ phase' = (IF stack = <<>> THEN "no record" ELSE "walking") /\ asking' = Nowhere
  /\ UNCHANGED <<published, stack, total, exceeded, seen, asked>>

(* The resolver rejects, and nothing catches it. *)
TxtFails ==
  /\ phase = "asking"
  /\ phase' = "failed" /\ asking' = Nowhere
  /\ UNCHANGED <<published, stack, total, exceeded, seen, asked>>

(* A call of walk returns: its terms are done, or the limit is exceeded,   *)
(* which every outer call finds as soon as it goes on.                     *)
ReturnFromWalk ==
  /\ phase = "walking"
  /\ exceeded \/ Head(stack) = <<>>
  /\ stack' = Tail(stack)
  /\ phase' = IF Len(stack) = 1 THEN "answered" ELSE "walking"
  /\ UNCHANGED <<published, asking, total, exceeded, seen, asked>>

Follows_SeenOrNot(term) == term.target # Nowhere
Follows(term) == term.target \notin seen \cup {Nowhere}

Exceeds_AtLimit(n) == n >= Limit
Exceeds(n) == n > Limit

(* One term of the innermost policy: it is counted, and an include or      *)
(* redirect of a domain not seen before is looked up.                      *)
Term ==
  /\ phase = "walking" /\ ~exceeded /\ Head(stack) # <<>>
  /\ LET term == Head(Head(stack))
         counted == total + (IF term.counts THEN 1 ELSE 0)
         asks == Follows(term) /\ ~Exceeds(counted)
     IN /\ stack' = Cons(Tail(Head(stack)), Tail(stack))
        /\ total' = counted
        /\ exceeded' = Exceeds(counted)
        /\ seen' = IF asks THEN seen \cup {term.target} ELSE seen
        /\ asked' = IF asks THEN Append(asked, term.target) ELSE asked
        /\ asking' = IF asks THEN term.target ELSE Nowhere
        /\ phase' = IF asks THEN "asking" ELSE "walking"
  /\ UNCHANGED published

Step == TxtArrives \/ TxtFails \/ ReturnFromWalk \/ Term

withinLimit == total <= Limit

-----------------------------------------------------------------------------

(* The domains whose policies apply: those reached from the root by        *)
(* include and redirect.                                                   *)
Includes(d) ==
  IF published[d] = NoPolicy THEN {}
  ELSE {published[d][i].target : i \in DOMAIN published[d]} \ {Nowhere}

IncludesWithin(R) == Root \in R /\ \A d \in R : Includes(d) \subseteq R

Reached ==
  CHOOSE R \in SUBSET Domains :
    /\ IncludesWithin(R)
    /\ \A other \in SUBSET Domains : IncludesWithin(other) => R \subseteq other

(* The terms of a domain's policy that count, told apart by their places;  *)
(* and those of all the domains of a set.                                  *)
LookupsOf(d) ==
  IF published[d] = NoPolicy THEN {}
  ELSE {d} \X {i \in DOMAIN published[d] : published[d][i].counts}

Lookups(S) == UNION {LookupsOf(d) : d \in S}

(* The verdict does not depend on the order of the walk or on where it     *)
(* stopped: it is that of the lookups of all the policies reached, each    *)
(* policy counted once however many others include it.                     *)
VerdictIsThatOfAllPolicies ==
  phase = "answered" =>
    LET lookups == Cardinality(Lookups(Reached))
    IN /\ withinLimit <=> lookups <= Limit
       /\ withinLimit => total = lookups

(* An analysis sends a bounded number of TXT queries, no two of them for   *)
(* one domain, although policies include each other in cycles, and its     *)
(* recursion is never deeper than there are domains it has seen.           *)
QueriesAreBounded ==
  /\ Len(stack) <= Cardinality(seen)
  /\ Len(asked) <= Limit + 1
  /\ \A i, j \in DOMAIN asked : asked[i] = asked[j] => i = j

=============================================================================

--------------------------- MODULE ParallelTools ----------------------------
(***************************************************************************)
(* The tools that make several DNS queries at once and join them with      *)
(* Promise.all: checkDnssec (dns/dnssec.ts) and lookupAll (dns/records.ts), *)
(* which any failing query fails; checkPropagation (dns/propagation.ts),   *)
(* whose queries are each sent to one resolver and caught one by one; and  *)
(* lookupAsn (dns/asn.ts), which first asks for the origin ASes of an      *)
(* address and then, best effort, for the names of some of them.  One call *)
(* of one tool is followed, on top of DohClient.                           *)
(*                                                                         *)
(* What a resolver knows of the domain is its `view', which changes while  *)
(* the queries are in flight, as caches expire and the zone is edited: the *)
(* answers that are joined need not come from one moment or one resolver.  *)
(***************************************************************************)
EXTENDS DohClient, FiniteSets

CONSTANTS
  Tools,       \* a subset of ToolNames
  NameLegs,    \* those of "asn" for names, in order: as many as it makes at
               \* most (8, asn.ts:98)
  Query,       \* Query[t][c]: what tool t asks for in call c of dohQuery
  AsViews,     \* what a resolver may know of an address and of its ASes
  NoReply,     \* stands for no view
  MaxChanges   \* bound on the changes of views followed

ToolNames == {"dnssec", "propagation", "lookupAll", "asn"}

(* What a resolver may know of the domain.  "bogus": a validating resolver *)
(* says SERVFAIL.  That is HTTP 200 with no answers, and dohQuery fulfills. *)
(* Of an address it is how many ASes announce it (none, one, or more than  *)
(* lookupAsn asks the names of), and the name queries that it answers with *)
(* a TXT record whose fifth field is not empty.  To the others it says     *)
(* NXDOMAIN, SERVFAIL or nothing of use: they fulfill, without a name.     *)
OriginViews == {"no AS", "one AS", "many ASes"}
Views == {"unsigned", "signed", "secure", "bogus"}
ViewsOf(t) == IF t = "asn" THEN AsViews ELSE Views

(* What the legs of a tool ask for, and which legs ask for it. *)
TypesOf(t) ==
  CASE t = "dnssec" -> {"SOA", "DNSKEY", "DS"}
    [] t = "asn" -> {"origin", "name"}
    [] OTHER -> {"any"}

LegsOf(t) == DOMAIN Query[t]
LegsFor(t, type) == {c \in LegsOf(t) : Query[t][c] = type}
NamesOf(k) == {NameLegs[i] : i \in 1 .. k}

ASSUME ToolAssumption ==
  /\ Tools \subseteq ToolNames
  /\ IsFiniteSet(Calls)
  /\ DOMAIN Query = Tools
  /\ \A t \in Tools : Query[t] \in UNION {[C -> TypesOf(t)] : C \in SUBSET Calls}
  /\ \A t \in Tools : \A type \in TypesOf(t) \ {"any", "name"} :
       \E c \in Calls : LegsFor(t, type) = {c}
  /\ "propagation" \in Tools => \A c \in LegsOf("propagation") :
       Opts[c].resolvers = Unset /\ Opts[c].resolver # Unset
  /\ NameLegs \in Seq(Calls)
  /\ \A i, j \in 1 .. Len(NameLegs) : NameLegs[i] = NameLegs[j] => i = j
  /\ "asn" \in Tools => NameLegs # <<>> /\ LegsFor("asn", "name") = NamesOf(Len(NameLegs))
  /\ AsViews \subseteq [origin : OriginViews, named : SUBSET NamesOf(Len(NameLegs))]
  /\ \A t \in Tools : NoReply \notin ViewsOf(t)
  /\ \A c \in Calls : Opts[c].encodable /\ Chain(c) # <<>>
  /\ MaxChanges \in Nat

VARIABLES
  view,     \* view[r]: the domain as resolver r sees it
  changes,  \* how many views have changed
  tool,     \* the tool that is called
  state,    \* the state of its promise
  reason,   \* what it was rejected with
  reply,    \* reply[c]: the view that query c was answered from
  result,   \* what it was fulfilled with
  seen      \* seen[r]: the views resolver r has had since the call (history,
            \* forgotten when the tool is rejected)

toolVars == <<view, changes, tool, state, reason, reply, result, seen>>
vars == <<dohVars, toolVars>>

Legs == LegsOf(tool)
AsksFor(c, type) == c \in Legs /\ Query[tool][c] = type

(* What a response says of a domain seen as v.  The DS set is only passed  *)
(* through to the caller and decides nothing.                              *)
AuthenticatedData(v) == v = "secure"
HasDnskeys(v) == v \in {"signed", "secure"}
Records(v) == IF v = "bogus" THEN "no records" ELSE v

(* The status of dnssec.ts, from the SOA and the DNSKEY leg.               *)
Status_ByDs(rep) ==
  LET leg(type) == CHOOSE c \in Legs : AsksFor(c, type)
  IN IF rep[leg("DS")] # "secure" THEN "unsigned"
     ELSE IF AuthenticatedData(rep[leg("SOA")]) THEN "secure" ELSE "signed-unvalidated"

Status(rep) ==
  LET leg(type) == CHOOSE c \in Legs : AsksFor(c, type)
  IN IF ~HasDnskeys(rep[leg("DNSKEY")]) THEN "unsigned"
     ELSE IF AuthenticatedData(rep[leg("SOA")]) THEN "secure" ELSE "signed-unvalidated"

(* isConsistent: an errored leg is no agreement. *)
Consistent_IgnoresErrors(rep) ==
  LET answered == {l \in Legs : rep[l] # NoReply}
  IN \A c, d \in answered : Records(rep[c]) = Records(rep[d])

Consistent(rep) ==
  \A c, d \in Legs : rep[c] # NoReply /\ Records(rep[c]) = Records(rep[d])

(* checkPropagation catches the error of each leg, lookupAsn those of the  *)
(* names; the others none.                                                 *)
Caught(c) == tool = "propagation" \/ AsksFor(c, "name")

(* How many records lookupAsn returns, after the slice, for what the first *)
(* answer says.                                                            *)
Kept(v) ==
  CASE v.origin = "no AS" -> 0 [] v.origin = "one AS" -> 1 [] OTHER -> Len(NameLegs)

(* A plausible slip: who was answered is taken to be named.                *)
Named_ByAnswer(replies) == {c \in Legs : AsksFor(c, "name") /\ replies[c] # NoReply}

(* Whose name was found.  An answer need not give one (asn.ts:101-105).    *)
Named(replies) ==
  {c \in Legs : AsksFor(c, "name") /\ replies[c] # NoReply /\ c \in replies[c].named}

ResultsOf(t) ==
  CASE t = "dnssec" -> {"secure", "unsigned", "signed-unvalidated"}
    [] t = "propagation" -> {"consistent", "divergent"}
    [] t = "lookupAll" -> {"records"}
    [] t = "asn" -> [records : 1 .. Len(NameLegs), named : SUBSET LegsOf("asn")]

(* A tool reports exactly when it is fulfilled and gives a reason exactly  *)
(* when it is rejected; no resolver makes checkPropagation reject.         *)
TypeOK ==
  /\ DohTypeOK
  /\ view \in [Resolvers -> ViewsOf(tool)]
  /\ changes \in 0 .. MaxChanges
  /\ tool \in Tools
  /\ state \in {"idle", "pending", "fulfilled", "rejected"}
  /\ reason \in ToolErrors \cup {NoError, "raw", "invalid_input", "not_found"}
  /\ reply \in [Calls -> ViewsOf(tool) \cup {NoReply}]
  /\ result \in IF state = "fulfilled" THEN ResultsOf(tool) ELSE {NoReply}
  /\ (state = "rejected") = (reason # NoError)
  /\ tool = "propagation" => reason \in {NoError, "invalid_input"}
  /\ seen \in [Resolvers -> SUBSET ViewsOf(tool)]

-----------------------------------------------------------------------------

Init ==
  /\ DohInit
  /\ up = {}        \* nothing is assumed of any resolver
  /\ tool \in Tools
  /\ view \in [Resolvers -> ViewsOf(tool)]
  /\ changes = 0
  /\ state = "idle"
  /\ reason = NoError
  /\ reply = [c \in Calls |-> NoReply]
  /\ result = NoReply
  /\ seen = [r \in Resolvers |-> {}]

(* normalizeHostname throws before any query is made. *)
RefuseName ==
  /\ state = "idle"
  /\ state' = "rejected"
  /\ reason' = "invalid_input"
  /\ UNCHANGED <<dohVars, view, changes, tool, reply, result, seen>>

(* Every leg is called before the first await, but for the names of ASes. *)
FirstLegs == {c \in Legs : ~AsksFor(c, "name")}

Invoke_OneByOne ==
  /\ \/ state = "idle"
     \/ state = "pending" /\ \A c \in Legs : ~InFlight(c)
  /\ \E c \in Legs : Begin({c})
  /\ state' = "pending"
  /\ seen' = [r \in Resolvers |-> {view[r]}]
  /\ UNCHANGED <<view, changes, tool, reason, reply, result>>

Invoke ==
  /\ state = "idle"
  /\ Begin(FirstLegs)
  /\ state' = "pending"
  /\ seen' = [r \in Resolvers |-> {view[r]}]
  /\ UNCHANGED <<view, changes, tool, reason, reply, result>>

(* Promise.all: the first leg that rejects uncaught rejects the tool; the  *)
(* last one to settle fulfills it.  Legs left behind run on, unheeded.     *)
Keep(replies) == reply' = replies /\ UNCHANGED <<state, reason, result, seen>>

Fulfill(replies) ==
  /\ state' = "fulfilled"
  /\ result' = CASE tool = "dnssec" -> Status(replies)
                 [] tool = "propagation" -> IF Consistent(replies) THEN "consistent" ELSE "divergent"
                 [] tool = "lookupAll" -> "records"
                 [] tool = "asn" -> [records |-> Cardinality({c \in Legs : phase[c] # "idle"}) - 1,
                                     named |-> Named(replies)]
  /\ reply' = [c \in Calls |-> NoReply]     \* the array is gone
  /\ UNCHANGED <<reason, seen>>

Awaited(l) == AsksFor(l, "name") => phase[l] # "idle"

Join_OfFulfilled(c, replies) ==
  IF state = "pending" /\ \A l \in Legs : phase'[l] = "fulfilled"
  THEN Fulfill(replies) ELSE Keep(replies)

Join(c, replies) ==
  LET fails == phase'[c] = "rejected" /\ ~Caught(c)
      last == \A l \in Legs : phase'[l] \in {"fulfilled", "rejected"} \/ ~Awaited(l)
  IN IF state = "pending" /\ fails
     THEN /\ state' = "rejected"
          /\ reason' = lastErr'[c]
          /\ reply' = [l \in Calls |-> NoReply]
          /\ seen' = [r \in Resolvers |-> {}]
          /\ UNCHANGED result
     ELSE IF state = "pending" /\ last /\ ~AsksFor(c, "origin") THEN Fulfill(replies)
     ELSE IF state = "pending" THEN Keep(replies)
     ELSE Keep(reply)

Step(c) ==
  /\ c \in Legs
  /\ \/ BodyDecodes(c) /\ Join(c, [reply EXCEPT ![c] = view[Current(c)]])
     \/ (AttemptFails(c) \/ HeadersArrive(c) \/ BodyFails(c)) /\ Join(c, reply)
  /\ UNCHANGED <<view, changes, tool>>

(* The origins are known: lookupAsn goes on in the same turn of the event  *)
(* loop, before any time passes.                                           *)
AskNames ==
  LET origin == CHOOSE c \in Legs : AsksFor(c, "origin")
      names == NamesOf(Kept(reply[origin]))
  IN  /\ tool = "asn" /\ state = "pending"
      /\ phase[origin] = "fulfilled"
      /\ \A c \in Legs \ {origin} : phase[c] = "idle"
      /\ \/ /\ names # {}
            /\ Begin(names)
            /\ UNCHANGED <<state, reason, reply, seen>>
         \/ /\ names = {}
            /\ state' = "rejected" /\ reason' = "not_found"
            /\ reply' = [l \in Calls |-> NoReply]
            /\ seen' = [r \in Resolvers |-> {}]
            /\ UNCHANGED dohVars
      /\ UNCHANGED <<view, changes, tool, result>>

(* A cache expires or the zone is edited. *)
ViewChanges(r) ==
  /\ state = "pending"
  /\ changes < MaxChanges
  /\ \E v \in ViewsOf(tool) \ {view[r]} :
       /\ view' = [view EXCEPT ![r] = v]
       /\ seen' = [seen EXCEPT ![r] = @ \cup {v}]
  /\ changes' = changes + 1
  /\ UNCHANGED <<dohVars, tool, state, reason, reply, result>>

TimePasses == Tick /\ UNCHANGED toolVars

Next ==
  \/ RefuseName
  \/ Invoke
  \/ \E c \in Calls : Step(c)
  \/ AskNames
  \/ \E r \in Resolvers : ViewChanges(r)
  \/ TimePasses

Spec ==
  /\ Init /\ [][Next]_vars
  /\ WF_vars(TimePasses) /\ WF_vars(AskNames) /\ \A c \in Calls : WF_vars(Step(c))

-----------------------------------------------------------------------------

AskedFor(c) == {Chain(c)[i] : i \in 1 .. Len(Chain(c))}
Asked == UNION {AskedFor(c) : c \in Legs}

(* checkDnssec: the legs may be answered by different resolvers, at        *)
(* different times.  Still a domain is called secure only if one of them   *)
(* validated it while the check ran, unsigned only if one of them saw no   *)
(* keys, as it does for a bogus zone (the comment of dnssec.ts), and       *)
(* unvalidated only if one saw keys and one did not validate.  So a status *)
(* that no resolver held by itself takes two that disagree or one that     *)
(* changed: while all see the domain alike, it is that status.             *)
StatusWasSeen ==
  tool = "dnssec" /\ state = "fulfilled" =>
    LET views == UNION {seen[r] : r \in Asked}
    IN /\ result = "secure" => "secure" \in views
       /\ result = "unsigned" => views \cap {"unsigned", "bogus"} # {}
       /\ result = "signed-unvalidated" =>
            (\E v \in views : HasDnskeys(v)) /\ \E v \in views : ~AuthenticatedData(v)

(* checkPropagation: `consistent' means that every one of the resolvers    *)
(* answered, and held the common record set at some time of the check.     *)
(* Resolvers that all answer from views that agree and do not change are   *)
(* never called inconsistent.                                              *)
ConsistentMeansAgreement ==
  tool = "propagation" /\ state = "fulfilled" =>
    /\ result = "consistent" =>
         \E v \in Views : \A r \in Asked : \E w \in seen[r] : Records(w) = Records(v)
    /\ /\ \A c \in Legs : phase[c] = "fulfilled"
       /\ \E v \in Views : \A r \in Asked : seen[r] = {v}
       => result = "consistent"

(* lookupAsn: what fails while the names are resolved costs no more than   *)
(* the name it was asked for ("best-effort, bounded", asn.ts:96).  The     *)
(* records are as many as some resolver knew of origins, within the bound. *)
(* A record has a name only if a resolver that was asked for that very     *)
(* name had it at some time of the lookup, and lacks it only if its query  *)
(* failed or one of those resolvers had no name for it; the lookup is      *)
(* rejected only for the address, the first query, or because no AS        *)
(* announces it.                                                           *)
NamesAreBestEffort ==
  tool = "asn" =>
    /\ state = "fulfilled" =>
         /\ \E r \in Asked : \E v \in seen[r] : Kept(v) = result.records
         /\ result.named \subseteq NamesOf(result.records)
         /\ \A c \in NamesOf(result.records) :
              \/ /\ phase[c] = "fulfilled"
                 /\ \E r \in AskedFor(c) : \E v \in seen[r] : c \in v.named <=> c \in result.named
              \/ phase[c] = "rejected" /\ c \notin result.named
    /\ state = "rejected" => \A i \in 1 .. Len(NameLegs) : phase[NameLegs[i]] = "idle"

(* The tool is itself a promise that settles once, within the budget of    *)
(* its slowest leg and not of all legs together; lookupAsn takes its two   *)
(* rounds one after the other.                                             *)
Slowest(legs) ==
  LET budgets == {Len(Chain(c)) * Timeout(c) : c \in legs} \cup {0}
  IN CHOOSE m \in budgets : \A b \in budgets : b <= m

BudgetOf(t) ==
  LET names == LegsFor(t, "name") IN Slowest(LegsOf(t) \ names) + Slowest(names)

ToolPromise == INSTANCE Lookup WITH
  Calls     <- Tools,
  Budget    <- [t \in Tools |-> BudgetOf(t)],
  startedAt <- [t \in Tools |-> 0],
  state     <- [t \in Tools |-> IF t = tool THEN state ELSE "idle"]

ToolImplementsLookup == ToolPromise!Spec

(* The tool always settles, with legs that fail, hang or are left behind:  *)
(* EveryCallSettles of Lookup, for the one tool that is called.            *)
ToolSettles == state = "pending" ~> state \in {"fulfilled", "rejected"}

=============================================================================

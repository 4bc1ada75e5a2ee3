----------------------------- MODULE DohClient ------------------------------
(***************************************************************************)
(* dohQuery (dns/doh.ts): a DNS query sent to one resolver of a chain      *)
(* after the other, each attempt under its own AbortSignal.timeout, until  *)
(* one of them answers 2xx.  Several calls are in flight at once; they     *)
(* share the clock and the resolvers and nothing else.                     *)
(*                                                                         *)
(* A resolver that is `up' answers 2xx with a decodable message before the *)
(* timeout; one that is not may fail in each of the ways the code tells    *)
(* apart, and may also answer.  What is in the message is left to the      *)
(* modules that use this one.                                              *)
(***************************************************************************)
EXTENDS Integers, Sequences

CONSTANTS
  Calls,             \* the calls of dohQuery
  Resolvers,         \* the resolver URLs
  DefaultResolvers,  \* Quad9, then Cloudflare
  DefaultTimeout,    \* 5000 ms, in ticks
  Unset,             \* an option that was not given
  Opts               \* Opts[c]: the options of call c

Options ==
  [encodable : BOOLEAN,   \* every label of the name has 1 to 63 bytes
   resolver  : Resolvers \cup {Unset},
   resolvers : Seq(Resolvers) \cup {Unset},
   timeoutMs : (Nat \ {0}) \cup {Unset}]

ASSUME DohAssumption ==
  /\ DefaultResolvers \in Seq(Resolvers)
  /\ DefaultTimeout \in Nat \ {0}
  /\ Opts \in [Calls -> Options]

VARIABLES
  up,         \* the resolvers that work during the run
  now,        \* the time
  startedAt,  \* startedAt[c]: when call c was made
  phase,      \* phase[c]: where the promise of call c stands
  pos,        \* pos[c]: which resolver of its chain call c is trying
  deadline,   \* deadline[c]: when the signal of that attempt aborts it
  lastErr     \* lastErr[c]: the error kept so far, in the end the one thrown

dohVars == <<up, now, startedAt, phase, pos, deadline, lastErr>>

ToolErrors == {"timeout", "upstream_error"}
NoError == "none"

Chain(c) ==
  CASE Opts[c].resolvers # Unset -> Opts[c].resolvers
    [] Opts[c].resolvers = Unset /\ Opts[c].resolver # Unset -> <<Opts[c].resolver>>
    [] OTHER -> DefaultResolvers

Timeout(c) == IF Opts[c].timeoutMs # Unset THEN Opts[c].timeoutMs ELSE DefaultTimeout

InFlight(c) == phase[c] \in {"headers", "body"}
Current(c) == Chain(c)[pos[c]]

DohTypeOK ==
  /\ up \subseteq Resolvers
  /\ now \in Nat
  /\ startedAt \in [Calls -> Nat]
  /\ phase \in [Calls -> {"idle", "headers", "body", "fulfilled", "rejected"}]
  /\ pos \in [Calls -> Nat]
  /\ deadline \in [Calls -> Nat]
  /\ lastErr \in [Calls -> ToolErrors \cup {NoError, "raw"}]

-----------------------------------------------------------------------------

DohInit ==
  /\ up \in SUBSET Resolvers
  /\ now = 0
  /\ startedAt = [c \in Calls |-> 0]
  /\ phase = [c \in Calls |-> "idle"]
  /\ pos = [c \in Calls |-> 0]
  /\ deadline = [c \in Calls |-> 0]
  /\ lastErr = [c \in Calls |-> NoError]

(* `throw lastErr ?? new ToolError(...)' *)
Thrown(kept) == IF kept = NoError THEN "upstream_error" ELSE kept

(* The calls of C are made in one synchronous stretch of code, as under    *)
(* Promise.all.  A name that cannot be encoded rejects at once, with an    *)
(* Error that is no ToolError; so does an empty chain, with the            *)
(* upstream_error after the loop.  The others fetch from the head of their *)
(* chain.                                                                  *)
Fetches(c) == Opts[c].encodable /\ Chain(c) # <<>>

Begin(C) ==
  /\ C # {}
  /\ \A c \in C : phase[c] = "idle"
  /\ startedAt' = [c \in Calls |-> IF c \in C THEN now ELSE startedAt[c]]
  /\ phase' = [c \in Calls |-> IF c \notin C THEN phase[c]
                               ELSE IF Fetches(c) THEN "headers" ELSE "rejected"]
  /\ pos' = [c \in Calls |-> IF c \in C /\ Fetches(c) THEN 1 ELSE pos[c]]
  /\ deadline' = [c \in Calls |-> IF c \in C /\ Fetches(c) THEN now + Timeout(c)
                                  ELSE deadline[c]]
  /\ lastErr' = [c \in Calls |-> IF c \notin C \/ Fetches(c) THEN lastErr[c]
                                 ELSE IF ~Opts[c].encodable THEN "raw" ELSE Thrown(NoError)]
  /\ UNCHANGED <<up, now>>

(* The call is over: its locals are gone and its signal concerns nobody.   *)
Settle(c, how, why) ==
  /\ phase' = [phase EXCEPT ![c] = how]
  /\ lastErr' = [lastErr EXCEPT ![c] = why]
  /\ deadline' = [deadline EXCEPT ![c] = 0]
  /\ UNCHANGED pos

Reject(c, why) == Settle(c, "rejected", why)

FetchFrom(c, i, why) ==
  /\ pos' = [pos EXCEPT ![c] = i]
  /\ deadline' = [deadline EXCEPT ![c] = now + Timeout(c)]
  /\ lastErr' = [lastErr EXCEPT ![c] = why]
  /\ UNCHANGED phase

(* `continue': the error is kept and the next resolver is fetched from; at *)
(* the end of the chain the error kept last is thrown.                     *)
TryNext_ThrowsAtOnce(c, why) == Reject(c, Thrown(why))

TryNext_NeverThrows(c, why) ==
  IF pos[c] < Len(Chain(c)) THEN FetchFrom(c, pos[c] + 1, why)
  ELSE UNCHANGED <<phase, pos, deadline, lastErr>>

TryNext_SkipsOne(c, why) ==
  IF pos[c] + 1 < Len(Chain(c)) THEN FetchFrom(c, pos[c] + 2, why) ELSE Reject(c, Thrown(why))

TryNext(c, why) ==
  IF pos[c] < Len(Chain(c)) THEN FetchFrom(c, pos[c] + 1, why) ELSE Reject(c, Thrown(why))

(* fetch throws, the abort of the signal being `timeout' and any other     *)
(* failure `upstream_error', or the response is not 2xx.                   *)
AttemptFails(c) ==
  /\ phase[c] = "headers"
  /\ Current(c) \notin up
  /\ \E why \in ToolErrors :
       /\ why = "timeout" => now = deadline[c]
       /\ TryNext(c, why)
  /\ UNCHANGED <<up, now, startedAt>>

Answers(c) == now < deadline[c] \/ Current(c) \in up

HeadersArrive(c) ==
  /\ phase[c] = "headers" /\ Answers(c)
  /\ phase' = [phase EXCEPT ![c] = "body"]
  /\ UNCHANGED <<up, now, startedAt, pos, deadline, lastErr>>

BodyDecodes(c) ==
  /\ phase[c] = "body" /\ Answers(c)
  /\ Settle(c, "fulfilled", NoError)
  /\ UNCHANGED <<up, now, startedAt>>

(* The body stops arriving, is aborted by the signal or does not decode.   *)
(* The return is outside the try: nothing catches it, and no other         *)
(* resolver is tried.                                                      *)
BodyFails(c) ==
  /\ phase[c] = "body"
  /\ Current(c) \notin up
  /\ Reject(c, "raw")
  /\ UNCHANGED <<up, now, startedAt>>

(* The signal covers the headers and the body: an attempt is over, one way *)
(* or another, when its deadline comes.                                    *)
Tick_HeadersOnly ==
  /\ \E c \in Calls : InFlight(c)
  /\ \A c \in Calls : phase[c] = "headers" => now < deadline[c]
  /\ now' = now + 1
  /\ UNCHANGED <<up, startedAt, phase, pos, deadline, lastErr>>

Tick ==
  /\ \E c \in Calls : InFlight(c)
  /\ \A c \in Calls : InFlight(c) => now < deadline[c]
  /\ now' = now + 1
  /\ UNCHANGED <<up, startedAt, phase, pos, deadline, lastErr>>

Attempt(c) == AttemptFails(c) \/ HeadersArrive(c) \/ BodyDecodes(c) \/ BodyFails(c)

DohNext ==
  \/ \E C \in SUBSET Calls : Begin(C)
  \/ \E c \in Calls : Attempt(c)
  \/ Tick

(* The timers of the runtime fire, so every attempt has an outcome.        *)
DohFairness == WF_dohVars(Tick) /\ \A c \in Calls : WF_dohVars(Attempt(c))

DohSpec == DohInit /\ [][DohNext]_dohVars /\ DohFairness

-----------------------------------------------------------------------------

(* The resolvers a call has given up on are not up: a working resolver of  *)
(* the chain is never passed over (the loop of dohQuery skips none).       *)
PassedOverAreDown ==
  \A c \in Calls : \A i \in 1 .. pos[c] - 1 : Chain(c)[i] \notin up

(* A ToolError means that the whole chain was tried: a timeout or an       *)
(* upstream_error from one resolver is not reported while the fallback     *)
(* has not been asked.                                                     *)
ToolErrorAfterWholeChain ==
  \A c \in Calls :
    phase[c] = "rejected" /\ lastErr[c] \in ToolErrors =>
      /\ pos[c] = Len(Chain(c))
      /\ \A i \in 1 .. Len(Chain(c)) : Chain(c)[i] \notin up

(* A call settles within one timeout per resolver of its chain, however    *)
(* slowly headers and bodies arrive: the timeouts add up and no attempt    *)
(* outlives its own.                                                       *)
SettlesInTime ==
  \A c \in Calls : InFlight(c) => now <= startedAt[c] + Len(Chain(c)) * Timeout(c)

(* dohQuery implements the promise its callers await.                      *)
Promise == INSTANCE Lookup WITH
  Budget <- [c \in Calls |-> Len(Chain(c)) * Timeout(c)],
  state  <- [c \in Calls |-> IF InFlight(c) THEN "pending" ELSE phase[c]]

ImplementsLookup == Promise!Spec

(* Every call settles: whatever the resolvers do, no attempt hangs. *)
EveryCallSettles == Promise!EveryCallSettles

(* The comment of dohQuery says that resolvers are tried in turn so that   *)
(* one bad upstream does not break the lookup: a chain with a working      *)
(* resolver does not reject an encodable query.                            *)
OneBadUpstreamIsSurvived ==
  \A c \in Calls :
    /\ Opts[c].encodable
    /\ \E i \in 1 .. Len(Chain(c)) : Chain(c)[i] \in up
    => phase[c] # "rejected"

=============================================================================

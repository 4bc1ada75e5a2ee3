----------------------------- MODULE DnsblSweep -----------------------------
(***************************************************************************)
(* handleDNSBL (apps/probe/main.go): one request starts a goroutine per    *)
(* blacklist zone; at most Capacity of them look up at a time, each under  *)
(* a timeout of its own that starts once it has its place in the semaphore *)
(* channel; the handler waits for the WaitGroup and responds.              *)
(***************************************************************************)
EXTENDS Integers, FiniteSets

CONSTANTS
  N,          \* how many zones are configured
  Capacity,   \* 40, the capacity of the channel `sem'
  Timeout     \* 4 seconds, in ticks

ASSUME SweepAssumption ==
  /\ N \in Nat
  /\ Capacity \in Nat \ {0}
  /\ Timeout \in Nat \ {0}

Zones == 1 .. N

VARIABLES
  now,
  spawned,    \* how many goroutines the loop has started
  pc,         \* pc[z]: where the goroutine of zone z is
  sem,        \* how many places of `sem' are taken
  wg,         \* the counter of the WaitGroup
  deadline,   \* deadline[z]: when the context of z's lookup expires
  began,      \* began[z]: when that lookup was begun (history)
  results,    \* results[z]: the slot of zone z
  responses,  \* the listings sent to the client, in order
  gone        \* the client has closed the connection

vars == <<now, spawned, pc, sem, wg, deadline, began, results, responses, gone>>

Verdicts == {"listed", "clean", "error", "timed out"}

(* A goroutine that has its place in the semaphore keeps it until its slot *)
(* is written; the defers run in the order cancel, release, Done.          *)
Holding == {z \in Zones : pc[z] \in {"looking", "written"}}
Running == {z \in Zones : pc[z] \in {"queued", "looking", "written", "released"}}

TypeOK ==
  /\ now \in Nat
  /\ spawned \in 0 .. N
  /\ pc \in [Zones -> {"new", "queued", "looking", "written", "released", "done"}]
  /\ sem \in 0 .. Capacity
  /\ wg \in 0 .. N
  /\ deadline \in [Zones -> Nat] /\ began \in [Zones -> Nat]
  /\ results \in [Zones -> Verdicts \cup {"unset"}]
  /\ responses \in {<<>>} \cup {<<listings>> : listings \in [Zones -> Verdicts]}
  /\ gone \in BOOLEAN

Init ==
  /\ now = 0
  /\ spawned = 0
  /\ pc = [z \in Zones |-> "new"]
  /\ sem = 0
  /\ wg = 0
  /\ deadline = [z \in Zones |-> 0] /\ began = [z \in Zones |-> 0]
  /\ results = [z \in Zones |-> "unset"]
  /\ responses = <<>>
  /\ gone = FALSE

Goto(z, l) == pc' = [pc EXCEPT ![z] = l]

-----------------------------------------------------------------------------

(* wg.Add(1); go func ... *)
Spawn_AddsLater ==
  /\ spawned < N
  /\ spawned' = spawned + 1
  /\ Goto(spawned + 1, "queued")
  /\ UNCHANGED <<now, sem, wg, deadline, began, results, responses, gone>>

Spawn ==
  /\ spawned < N
  /\ spawned' = spawned + 1
  /\ wg' = wg + 1
  /\ Goto(spawned + 1, "queued")
  /\ UNCHANGED <<now, sem, deadline, began, results, responses, gone>>

(* sem <- struct{}{}, and the context of the lookup. *)
Acquire_SharedDeadline(z) ==
  /\ pc[z] = "queued"
  /\ sem < Capacity
  /\ sem' = sem + 1
  /\ deadline' = [deadline EXCEPT ![z] = Timeout]
  /\ began' = [began EXCEPT ![z] = now]
  /\ Goto(z, "looking")
  /\ UNCHANGED <<now, spawned, wg, results, responses, gone>>

Acquire(z) ==
  /\ pc[z] = "queued"
  /\ sem < Capacity
  /\ sem' = sem + 1
  /\ deadline' = [deadline EXCEPT ![z] = now + Timeout]
  /\ began' = [began EXCEPT ![z] = now]
  /\ Goto(z, "looking")
  /\ UNCHANGED <<now, spawned, wg, results, responses, gone>>

(* LookupHost returns and the slot is written: an answer is a listing, "no *)
(* such host" is clean, any other error is neither.  The lookup times out  *)
(* at its deadline, and fails at once when the client is gone.             *)
LookedUp(z) ==
  /\ pc[z] = "looking"
  /\ \E v \in Verdicts :
       /\ v = "timed out" => now >= deadline[z]
       /\ results' = [results EXCEPT ![z] = v]
  /\ Goto(z, "written")
  /\ UNCHANGED <<now, spawned, sem, wg, deadline, began, responses, gone>>

Release_OnSuccessOnly(z) ==
  /\ pc[z] = "written"
  /\ sem' = IF results[z] = "error" THEN sem ELSE sem - 1
  /\ Goto(z, "released")
  /\ UNCHANGED <<now, spawned, wg, deadline, began, results, responses, gone>>

Release(z) ==
  /\ pc[z] = "written"
  /\ sem' = sem - 1
  /\ Goto(z, "released")
  /\ UNCHANGED <<now, spawned, wg, deadline, began, results, responses, gone>>

Done(z) ==
  /\ pc[z] = "released"
  /\ wg' = wg - 1
  /\ Goto(z, "done")
  /\ UNCHANGED <<now, spawned, sem, deadline, began, results, responses, gone>>

(* wg.Wait returns, and the response is built from the slots. *)
Respond ==
  /\ spawned = N /\ wg = 0
  /\ responses = <<>>
  /\ responses' = <<results>>
  /\ UNCHANGED <<now, spawned, pc, sem, wg, deadline, began, results, gone>>

(* The context of the request is cancelled. *)
ClientLeaves ==
  /\ ~gone /\ responses = <<>>
  /\ gone' = TRUE
  /\ UNCHANGED <<now, spawned, pc, sem, wg, deadline, began, results, responses>>

Goroutine(z) == Acquire(z) \/ LookedUp(z) \/ Release(z) \/ Done(z)

(* Time passes while every goroutine is waiting for the network or for a   *)
(* place.                                                                  *)
Tick ==
  /\ spawned = N
  /\ Running # {} /\ ~gone
  /\ \A z \in Running :
       \/ pc[z] = "queued" /\ sem = Capacity
       \/ pc[z] = "looking" /\ now < deadline[z]
  /\ now' = now + 1
  /\ UNCHANGED <<spawned, pc, sem, wg, deadline, began, results, responses, gone>>

Next ==
  \/ Spawn
  \/ \E z \in Zones : Goroutine(z)
  \/ Respond
  \/ ClientLeaves
  \/ Tick

(* The Go scheduler runs every goroutine that can run, and the context of  *)
(* each lookup expires.                                                    *)
Spec ==
  /\ Init /\ [][Next]_vars
  /\ WF_vars(Spawn) /\ WF_vars(Respond) /\ WF_vars(Tick)
  /\ \A z \in Zones : WF_vars(Goroutine(z))

-----------------------------------------------------------------------------

(* The counters are what they stand for: no place is leaked or given back  *)
(* twice on any path of the goroutine, at most Capacity lookups run at a   *)
(* time, and the WaitGroup counts the goroutines that have not ended.      *)
CountersAreRight ==
  /\ sem = Cardinality(Holding)
  /\ wg = Cardinality(Running)
  /\ Cardinality(Holding) <= Capacity

(* The response has a verdict for every zone, and no goroutine is left to  *)
(* write to the slots it is built from.                                    *)
ResponseIsComplete ==
  responses # <<>> => Running = {} /\ \A z \in Zones : results[z] # "unset"

(* Every lookup has the whole timeout to itself: a zone is not reported as *)
(* timed out because its goroutine waited for a place.                     *)
NoTimeoutInTheQueue ==
  \A z \in Zones : results[z] = "timed out" => now >= began[z] + Timeout

(* The sweep takes at most one timeout for each batch of Capacity zones.   *)
SweepTakesItsTime == now <= ((N + Capacity - 1) \div Capacity) * Timeout

(* The handler implements the sweep that callers are promised.              *)
Promised == INSTANCE Sweep WITH listing <- results
ImplementsSweep == Promised!Spec

=============================================================================

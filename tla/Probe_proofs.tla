---------------------------- MODULE Probe_proofs -----------------------------
(***************************************************************************)
(* Proofs about DnsblSweep and Probe, for any number of zones, any         *)
(* capacity and any timeouts.                                              *)
(*                                                                         *)
(* The sweep responds when the WaitGroup is zero.  The counter is the      *)
(* number of running goroutines (CountersAreRight), so there are none; all *)
(* were spawned (SpawnedInOrder), so all have ended, and those that have   *)
(* ended have written their slot (SlotsAreWritten).  Within the server it  *)
(* keeps its invariant although other handlers and the server's clock take *)
(* steps between its own; the stages, the speed test and the echo have     *)
(* invariants of their own.                                                *)
(***************************************************************************)
EXTENDS Probe, FiniteSetTheorems, SequenceTheorems, TLAPS

SpawnedInOrder == \A z \in Zones : pc[z] = "new" <=> z > spawned

SlotsAreWritten ==
  \A z \in Zones : results[z] # "unset" <=> pc[z] \in {"written", "released", "done"}

(* A lookup expires when its own timeout has passed.                       *)
DeadlinesAreOwn == \A z \in Zones : pc[z] = "looking" => deadline[z] = began[z] + Timeout

Inv == TypeOK /\ CountersAreRight /\ SpawnedInOrder /\ SlotsAreWritten /\ ResponseIsComplete

-----------------------------------------------------------------------------

LEMMA ZonesAreFinite ==
  /\ IsFiniteSet(Zones) /\ Cardinality(Zones) = N
  /\ \A S \in SUBSET Zones : /\ IsFiniteSet(S) /\ Cardinality(S) \in 0 .. N
                             /\ Cardinality(S) = 0 <=> S = {}
  <1>1. IsFiniteSet(Zones) /\ Cardinality(Zones) = N
    BY FS_Interval, SweepAssumption DEF Zones, SweepAssumption
  <1>2. ASSUME NEW S \in SUBSET Zones
        PROVE  /\ IsFiniteSet(S) /\ Cardinality(S) \in 0 .. N
               /\ Cardinality(S) = 0 <=> S = {}
    <2>1. IsFiniteSet(S) /\ Cardinality(S) <= N
      BY <1>1, FS_Subset
    <2>2. Cardinality(S) \in Nat /\ (Cardinality(S) = 0 <=> S = {})
      BY <2>1, FS_CardinalityType, FS_EmptySet
    <2>3. QED
      BY <2>1, <2>2, SweepAssumption DEF SweepAssumption
  <1>3. QED
    BY <1>1, <1>2

(* A counter goes up by one with the zone that joins the set it counts ... *)
LEMMA JoinsTheSet ==
  ASSUME NEW S \in SUBSET Zones, NEW z \in Zones, z \notin S
  PROVE  Cardinality(S \cup {z}) = Cardinality(S) + 1
  BY ZonesAreFinite, FS_AddElement

(* ... and down by one with the zone that leaves it.                       *)
LEMMA LeavesTheSet ==
  ASSUME NEW S \in SUBSET Zones, NEW z \in S
  PROVE  Cardinality(S \ {z}) = Cardinality(S) - 1
  BY ZonesAreFinite, FS_RemoveElement

-----------------------------------------------------------------------------

LEMMA SpawnKeepsInv ==
  ASSUME Inv, Spawn
  PROVE  Inv'
  <1> DEFINE z == spawned + 1
  <1>1. /\ z \in Zones /\ spawned \in Nat /\ spawned' = z /\ wg' = wg + 1
        /\ pc' = [pc EXCEPT ![z] = "queued"]
        /\ UNCHANGED <<now, sem, deadline, began, results, responses, gone>>
    BY SweepAssumption DEF Spawn, Goto, Inv, TypeOK, Zones, SweepAssumption
  <1>2. pc[z] = "new" /\ pc \in [Zones -> {"new", "queued", "looking", "written", "released", "done"}]
    BY <1>1 DEF Inv, TypeOK, SpawnedInOrder
  <1> HIDE DEF z
  <1>3. /\ Running' = Running \cup {z} /\ z \notin Running /\ Running \subseteq Zones
        /\ Holding' = Holding
    BY <1>1, <1>2 DEF Running, Holding
  <1>4. CountersAreRight'
    BY <1>1, <1>3, JoinsTheSet DEF Inv, CountersAreRight
  <1>5. wg' \in 0 .. N
    <2>1. wg' = Cardinality(Running') /\ Running' \in SUBSET Zones
      BY <1>1, <1>3, <1>4 DEF CountersAreRight
    <2>2. QED
      BY <2>1, ZonesAreFinite, Zenon
  <1>6. TypeOK'
    BY <1>1, <1>2, <1>5 DEF Inv, TypeOK, Zones
  <1>7. SpawnedInOrder'
    BY <1>1, <1>2 DEF Inv, SpawnedInOrder, Zones, z
  <1>8. SlotsAreWritten'
    BY <1>1, <1>2 DEF Inv, SlotsAreWritten
  <1>9. ResponseIsComplete'
    <2>1. responses = <<>>
      BY <1>1, <1>2 DEF Inv, ResponseIsComplete, SlotsAreWritten
    <2>2. QED
      BY <1>1, <2>1 DEF ResponseIsComplete
  <1>10. QED
    BY <1>4, <1>6, <1>7, <1>8, <1>9 DEF Inv

(* What the four steps of a goroutine have in common: it is running, so    *)
(* that nothing has been sent; its steps move it on.                       *)
LEMMA GoroutineIsRunning ==
  ASSUME Inv, NEW z \in Running
  PROVE  z \in Zones /\ ~(z > spawned) /\ responses = <<>>
  BY DEF Inv, Running, ResponseIsComplete, SpawnedInOrder

LEMMA AcquireKeepsInv ==
  ASSUME Inv, NEW z \in Zones, Acquire(z)
  PROVE  Inv'
  <1>1. /\ pc[z] = "queued" /\ sem < Capacity /\ sem' = sem + 1
        /\ pc' = [pc EXCEPT ![z] = "looking"]
        /\ deadline' = [deadline EXCEPT ![z] = now + Timeout] /\ began' = [began EXCEPT ![z] = now]
        /\ UNCHANGED <<now, spawned, wg, results, responses, gone>>
    BY DEF Acquire, Goto
  <1>2. responses = <<>> /\ ~(z > spawned)
    BY <1>1, GoroutineIsRunning DEF Running
  <1>3. /\ Holding' = Holding \cup {z} /\ z \notin Holding /\ Holding \in SUBSET Zones
        /\ Running' = Running
    BY <1>1 DEF Inv, TypeOK, Holding, Running
  <1>4. TypeOK'
    BY <1>1, SweepAssumption DEF Inv, TypeOK, SweepAssumption
  <1>5. CountersAreRight'
    <2>1. Cardinality(Holding') = Cardinality(Holding) + 1
      BY <1>3, JoinsTheSet
    <2>2. QED
      BY <1>1, <1>3, <2>1, SweepAssumption DEF Inv, TypeOK, CountersAreRight, SweepAssumption
  <1>6. SpawnedInOrder' /\ SlotsAreWritten' /\ ResponseIsComplete'
    BY <1>1, <1>2 DEF Inv, TypeOK, SpawnedInOrder, SlotsAreWritten, ResponseIsComplete
  <1>7. QED
    BY <1>4, <1>5, <1>6 DEF Inv

LEMMA LookedUpKeepsInv ==
  ASSUME Inv, NEW z \in Zones, LookedUp(z)
  PROVE  Inv'
  <1>1. PICK v \in Verdicts : results' = [results EXCEPT ![z] = v]
    BY DEF LookedUp
  <1>2. /\ pc[z] = "looking" /\ pc' = [pc EXCEPT ![z] = "written"]
        /\ UNCHANGED <<now, spawned, sem, wg, deadline, began, responses, gone>>
    BY DEF LookedUp, Goto
  <1>3. responses = <<>> /\ ~(z > spawned)
    BY <1>2, GoroutineIsRunning DEF Running
  <1>4. Holding' = Holding /\ Running' = Running
    BY <1>2 DEF Inv, TypeOK, Holding, Running
  <1>5. TypeOK' /\ CountersAreRight'
    BY <1>1, <1>2, <1>4 DEF Inv, TypeOK, CountersAreRight
  <1>6. SpawnedInOrder' /\ ResponseIsComplete'
    BY <1>2, <1>3 DEF Inv, TypeOK, SpawnedInOrder, ResponseIsComplete
  <1>7. SlotsAreWritten'
    BY <1>1, <1>2 DEF Inv, TypeOK, SlotsAreWritten, Verdicts
  <1>8. QED
    BY <1>5, <1>6, <1>7 DEF Inv

LEMMA ReleaseKeepsInv ==
  ASSUME Inv, NEW z \in Zones, Release(z)
  PROVE  Inv'
  <1>1. /\ pc[z] = "written" /\ pc' = [pc EXCEPT ![z] = "released"] /\ sem' = sem - 1
        /\ UNCHANGED <<now, spawned, wg, deadline, began, results, responses, gone>>
    BY DEF Release, Goto
  <1>2. responses = <<>> /\ ~(z > spawned)
    BY <1>1, GoroutineIsRunning DEF Running
  <1>3. /\ Holding' = Holding \ {z} /\ z \in Holding /\ Holding \in SUBSET Zones
        /\ Running' = Running
    BY <1>1 DEF Inv, TypeOK, Holding, Running
  <1>4. CountersAreRight'
    <2>1. Cardinality(Holding') = Cardinality(Holding) - 1
      BY <1>3, LeavesTheSet
    <2>2. QED
      BY <1>1, <1>3, <2>1, SweepAssumption DEF Inv, TypeOK, CountersAreRight, SweepAssumption
  <1>5. sem' \in 0 .. Capacity
    <2>1. Cardinality(Holding') \in Nat
      BY <1>3, ZonesAreFinite, FS_CardinalityType
    <2>2. QED
      BY <1>4, <2>1, SweepAssumption DEF CountersAreRight, SweepAssumption
  <1>6. TypeOK'
    BY <1>1, <1>5 DEF Inv, TypeOK
  <1>7. SpawnedInOrder' /\ SlotsAreWritten' /\ ResponseIsComplete'
    BY <1>1, <1>2 DEF Inv, TypeOK, SpawnedInOrder, SlotsAreWritten, ResponseIsComplete
  <1>8. QED
    BY <1>4, <1>6, <1>7 DEF Inv

LEMMA DoneKeepsInv ==
  ASSUME Inv, NEW z \in Zones, Done(z)
  PROVE  Inv'
  <1>1. /\ pc[z] = "released" /\ pc' = [pc EXCEPT ![z] = "done"] /\ wg' = wg - 1
        /\ UNCHANGED <<now, spawned, sem, deadline, began, results, responses, gone>>
    BY DEF Done, Goto
  <1>2. responses = <<>> /\ ~(z > spawned)
    BY <1>1, GoroutineIsRunning DEF Running
  <1>3. /\ Running' = Running \ {z} /\ z \in Running /\ Running \in SUBSET Zones
        /\ Holding' = Holding
    BY <1>1 DEF Inv, TypeOK, Holding, Running
  <1>4. CountersAreRight'
    <2>1. Cardinality(Running') = Cardinality(Running) - 1
      BY <1>3, LeavesTheSet
    <2>2. QED
      BY <1>1, <1>3, <2>1 DEF Inv, CountersAreRight
  <1>5. wg' \in 0 .. N
    <2>1. wg' = Cardinality(Running') /\ Running' \in SUBSET Zones
      BY <1>3, <1>4 DEF CountersAreRight
    <2>2. QED
      BY <2>1, ZonesAreFinite, Zenon
  <1>6. TypeOK'
    BY <1>1, <1>5 DEF Inv, TypeOK
  <1>7. SpawnedInOrder' /\ SlotsAreWritten' /\ ResponseIsComplete'
    BY <1>1, <1>2 DEF Inv, TypeOK, SpawnedInOrder, SlotsAreWritten, ResponseIsComplete
  <1>8. QED
    BY <1>4, <1>6, <1>7 DEF Inv

(* wg.Wait returns when every slot is written and no goroutine is left.    *)
LEMMA AllDoneAtRespond ==
  ASSUME Inv, spawned = N, wg = 0
  PROVE  Running = {} /\ \A z \in Zones : results[z] # "unset"
  <1>1. Running = {}
    <2>1. Running \in SUBSET Zones /\ Cardinality(Running) = 0
      BY DEF Inv, CountersAreRight, Running
    <2>2. QED
      BY <2>1, ZonesAreFinite, Zenon
  <1>2. ASSUME NEW z \in Zones
        PROVE  pc[z] = "done"
    <2>1. pc[z] # "new"
      BY SweepAssumption DEF Inv, SpawnedInOrder, Zones, SweepAssumption
    <2>2. z \notin Running
      BY <1>1
    <2>3. QED
      BY <2>1, <2>2 DEF Inv, TypeOK, Running
  <1>3. QED
    BY <1>1, <1>2 DEF Inv, SlotsAreWritten

LEMMA InvStep == Inv /\ [Next]_vars => Inv'
  <1> SUFFICES ASSUME Inv, [Next]_vars
               PROVE  Inv'
    OBVIOUS
  <1>1. CASE Spawn
    BY <1>1, SpawnKeepsInv
  <1>2. ASSUME NEW z \in Zones, Goroutine(z)
        PROVE  Inv'
    BY <1>2, AcquireKeepsInv, LookedUpKeepsInv, ReleaseKeepsInv, DoneKeepsInv DEF Goroutine
  <1>3. CASE Respond
    <2>1. /\ responses' = <<results>> /\ Running = {} /\ \A z \in Zones : results[z] # "unset"
          /\ UNCHANGED <<now, spawned, pc, sem, wg, deadline, began, results, gone>>
      BY <1>3, AllDoneAtRespond DEF Respond
    <2>2. results \in [Zones -> Verdicts]
      BY <2>1 DEF Inv, TypeOK
    <2>3. TypeOK'
      BY <2>1, <2>2 DEF Inv, TypeOK
    <2>4. CountersAreRight' /\ SpawnedInOrder' /\ SlotsAreWritten' /\ ResponseIsComplete'
      BY <2>1 DEF Inv, CountersAreRight, SpawnedInOrder, SlotsAreWritten, ResponseIsComplete,
                  Holding, Running
    <2>5. QED
      BY <2>3, <2>4 DEF Inv
  <1>4. CASE ClientLeaves \/ Tick \/ UNCHANGED vars
    <2>1. UNCHANGED <<spawned, pc, sem, wg, deadline, began, results, responses>>
      BY <1>4 DEF ClientLeaves, Tick, vars
    <2>2. now' \in Nat
      BY <1>4 DEF ClientLeaves, Tick, vars, Inv, TypeOK
    <2>3. gone' \in BOOLEAN
      BY <1>4, Zenon DEF ClientLeaves, Tick, vars, Inv, TypeOK
    <2>4. QED
      BY <2>1, <2>2, <2>3 DEF Inv, TypeOK, CountersAreRight, SpawnedInOrder, SlotsAreWritten,
                              ResponseIsComplete, Holding, Running
  <1>5. QED
    BY <1>1, <1>2, <1>3, <1>4 DEF Next

LEMMA InitInv == Init => Inv
  <1> SUFFICES ASSUME Init
               PROVE  Inv
    OBVIOUS
  <1>1. Holding = {} /\ Running = {}
    BY DEF Init, Holding, Running
  <1>2. CountersAreRight
    BY <1>1, FS_EmptySet, SweepAssumption DEF Init, CountersAreRight, SweepAssumption
  <1>3. TypeOK
    <2>1. now \in Nat /\ spawned \in 0 .. N /\ sem \in 0 .. Capacity /\ wg \in 0 .. N
      BY SweepAssumption DEF Init, SweepAssumption
    <2>2. /\ pc \in [Zones -> {"new", "queued", "looking", "written", "released", "done"}]
          /\ deadline \in [Zones -> Nat] /\ began \in [Zones -> Nat]
          /\ results \in [Zones -> Verdicts \cup {"unset"}]
      BY DEF Init
    <2>3. responses \in {<<>>} \cup {<<listings>> : listings \in [Zones -> Verdicts]}
      BY DEF Init
    <2>4. gone \in BOOLEAN
      BY Zenon DEF Init
    <2>5. QED
      BY <2>1, <2>2, <2>3, <2>4 DEF TypeOK
  <1>4. SpawnedInOrder /\ SlotsAreWritten /\ ResponseIsComplete
    BY SweepAssumption
    DEF Init, SpawnedInOrder, SlotsAreWritten, ResponseIsComplete, Zones, SweepAssumption
  <1>5. QED
    BY <1>2, <1>3, <1>4 DEF Inv

LEMMA Invariance == Spec => []Inv
  BY InitInv, InvStep, PTL DEF Spec

(* The variables keep their types: the semaphore is never overfull and the *)
(* WaitGroup never negative.                                               *)
THEOREM Typing == Spec => []TypeOK
  BY Invariance, PTL DEF Inv

(* No place of the semaphore and no count of the WaitGroup is lost or      *)
(* given back twice, on any path of any goroutine.                         *)
THEOREM Counters == Spec => []CountersAreRight
  BY Invariance, PTL DEF Inv

(* The response has a verdict for every zone, and nobody writes to it any  *)
(* more.                                                                   *)
THEOREM Complete == Spec => []ResponseIsComplete
  BY Invariance, PTL DEF Inv

LEMMA TimeIsNoThreat ==
  ASSUME Inv, DeadlinesAreOwn, NoTimeoutInTheQueue,
         now' = now + 1, UNCHANGED <<pc, deadline, began, results>>
  PROVE  DeadlinesAreOwn' /\ NoTimeoutInTheQueue'
  <1>1. now \in Nat /\ Timeout \in Nat /\ began \in [Zones -> Nat]
    BY SweepAssumption, Zenon DEF Inv, TypeOK, SweepAssumption
  <1>2. DeadlinesAreOwn'
    BY Zenon DEF DeadlinesAreOwn
  <1>3. ASSUME NEW z \in Zones, results'[z] = "timed out"
        PROVE  now' >= began'[z] + Timeout
    <2>1. now >= began[z] + Timeout
      BY <1>3 DEF NoTimeoutInTheQueue
    <2>2. began[z] \in Nat /\ began'[z] = began[z]
      BY <1>1
    <2>3. QED
      BY <1>1, <2>1, <2>2
  <1>4. QED
    BY <1>2, <1>3, Zenon DEF NoTimeoutInTheQueue

(* No step shortens the time of a lookup, and none turns back the clock.   *)
LEMMA QueueStep ==
  ASSUME Inv, DeadlinesAreOwn, NoTimeoutInTheQueue, [Next]_vars
  PROVE  DeadlinesAreOwn' /\ NoTimeoutInTheQueue'
  <1> USE DEF DeadlinesAreOwn, NoTimeoutInTheQueue
  <1>1. /\ now \in Nat /\ Timeout \in Nat
        /\ pc \in [Zones -> {"new", "queued", "looking", "written", "released", "done"}]
        /\ deadline \in [Zones -> Nat] /\ began \in [Zones -> Nat]
        /\ results \in [Zones -> Verdicts \cup {"unset"}]
    BY SweepAssumption, Zenon DEF Inv, TypeOK, SweepAssumption
  <1>2. ASSUME NEW z \in Zones, Acquire(z)
        PROVE  DeadlinesAreOwn' /\ NoTimeoutInTheQueue'
    <2>1. results[z] = "unset"
      BY <1>2 DEF Acquire, Inv, SlotsAreWritten
    <2>2. /\ pc'[z] = "looking" /\ deadline'[z] = now + Timeout /\ began'[z] = now
          /\ \A other \in Zones \ {z} : /\ pc'[other] = pc[other]
                                        /\ deadline'[other] = deadline[other]
                                        /\ began'[other] = began[other]
          /\ results' = results /\ now' = now
      BY <1>1, <1>2 DEF Acquire, Goto
    <2>3. ASSUME NEW w \in Zones
          PROVE  /\ pc'[w] = "looking" => deadline'[w] = began'[w] + Timeout
                 /\ results'[w] = "timed out" => now' >= began'[w] + Timeout
      <3>1. CASE w = z
        BY <2>1, <2>2, <3>1
      <3>2. CASE w # z
        BY <2>2, <3>2
      <3>3. QED
        BY <3>1, <3>2
    <2>4. QED
      BY <2>3
  <1>3. ASSUME NEW z \in Zones, LookedUp(z)
        PROVE  DeadlinesAreOwn' /\ NoTimeoutInTheQueue'
    BY <1>1, <1>3 DEF LookedUp, Goto
  <1>4. ASSUME NEW z \in Zones, Release(z) \/ Done(z)
        PROVE  DeadlinesAreOwn' /\ NoTimeoutInTheQueue'
    BY <1>1, <1>4 DEF Release, Done, Goto
  <1>5. CASE Spawn
    BY <1>1, <1>5 DEF Spawn, Goto
  <1>6. CASE Respond \/ ClientLeaves \/ UNCHANGED vars
    BY <1>6 DEF Respond, ClientLeaves, vars
  <1>7. CASE Tick
    BY <1>7, TimeIsNoThreat, Zenon DEF Tick
  <1>8. QED
    BY <1>2, <1>3, <1>4, <1>5, <1>6, <1>7 DEF Next, Goroutine

(* For any number of zones and places: a goroutine that waited for a place *)
(* has as much time for its lookup as one that did not.                    *)
THEOREM Unhurried == Spec => []NoTimeoutInTheQueue
  <1>1. Init => DeadlinesAreOwn /\ NoTimeoutInTheQueue
    BY DEF Init, DeadlinesAreOwn, NoTimeoutInTheQueue
  <1>2. QED
    BY <1>1, QueueStep, Invariance, PTL DEF Spec

-----------------------------------------------------------------------------
(* The total time.  A zone that waits means that every place is taken by a *)
(* lookup that is less than one timeout old.  So by the time k timeouts    *)
(* have passed, k + 1 full batches of lookups have begun, or all of them.  *)

Begun == {z \in Zones : pc[z] \notin {"new", "queued"}}
BegunBy(t) == {z \in Begun : began[z] <= t}

BatchesBegin ==
  \A k \in Nat : k * Timeout < now =>
    \/ Zones \subseteq BegunBy(k * Timeout)
    \/ Cardinality(BegunBy(k * Timeout)) >= (k + 1) * Capacity

Batches == (N + Capacity - 1) \div Capacity

Timely ==
  /\ \A z \in Begun : began[z] <= now
  /\ BatchesBegin
  /\ SweepTakesItsTime

(* What begins in a step begins at this moment. *)
BeginsNow ==
  /\ Begun \subseteq Begun'
  /\ \A z \in Begun : began'[z] = began[z]
  /\ \A z \in Begun' \ Begun : began'[z] = now

(* The batches have room for all zones, and there is one if there is any.  *)
LEMMA RoomForAll ==
  /\ Batches \in Nat /\ N <= Batches * Capacity
  /\ N > 0 => Batches > 0
<1>1. N \in Nat /\ Capacity \in Nat \ {0}
  BY SweepAssumption DEF SweepAssumption
<1>2. ASSUME NEW a \in Nat, NEW c \in Nat \ {0}
      PROVE  /\ (a + c - 1) \div c \in Nat
             /\ a <= ((a + c - 1) \div c) * c
             /\ a > 0 => (a + c - 1) \div c > 0
  <2> DEFINE d == (a + c - 1) \div c
             r == (a + c - 1) % c
  <2>1. a + c - 1 \in Nat /\ d \in Int /\ r \in 0 .. c - 1
    OBVIOUS
  <2>2. a + c - 1 = c * d + r
    OBVIOUS
  <2> HIDE DEF d, r
  <2>3. c * d \in Int /\ c * d >= a
    BY <2>1, <2>2
  <2>4. d >= 0
    <3>1. CASE d <= -1
      <4>1. c * d <= -c
        BY <3>1, <2>1
      <4> QED
        BY <4>1, <2>3
    <3> QED
      BY <3>1, <2>1
  <2>5. c * d = d * c
    BY <2>1
  <2>6. a > 0 => d # 0
    BY <2>3
  <2> QED
    BY <2>1, <2>3, <2>4, <2>5, <2>6 DEF d
<1> QED
  BY <1>1, <1>2 DEF Batches

(* One batch more, or one less, is one timeout more or less. *)
LEMMA Multiples ==
  ASSUME NEW k \in Nat
  PROVE  /\ k * Timeout \in Nat /\ k * Capacity \in Nat
         /\ (k + 1) * Timeout = k * Timeout + Timeout
         /\ (k + 1) * Capacity = k * Capacity + Capacity
         /\ 0 * Timeout = 0 /\ (0 + 1) * Capacity = Capacity
<1>1. Timeout \in Nat /\ Capacity \in Nat
  BY SweepAssumption DEF SweepAssumption
<1>2. ASSUME NEW c \in Nat
      PROVE  k * c \in Nat /\ (k + 1) * c = k * c + c /\ 0 * c = 0 /\ (0 + 1) * c = c
  OBVIOUS
<1> QED
  BY <1>1, <1>2

(* Steps that take no time keep it: a lookup that begins now does not      *)
(* count for the past.                                                     *)
LEMMA StepIsTimely ==
  ASSUME Inv, Timely, [Next]_vars, ~Tick
  PROVE  Timely'
<1>1. now' = now /\ now \in Nat
  BY Zenon DEF Inv, TypeOK, Next, Spawn, Goroutine, Acquire, LookedUp, Release, Done, Respond,
               ClientLeaves, vars
<1>2. BeginsNow
  <2>1. /\ pc \in [Zones -> {"new", "queued", "looking", "written", "released", "done"}]
        /\ began \in [Zones -> Nat]
    BY Zenon DEF Inv, TypeOK
  <2>2. CASE Spawn
    <3>1. pc' = [pc EXCEPT ![spawned + 1] = "queued"] /\ began' = began
      BY <2>2 DEF Spawn, Goto
    <3>2. spawned + 1 \in Zones /\ spawned + 1 > spawned
      BY <2>2, SweepAssumption DEF Spawn, Inv, TypeOK, Zones, SweepAssumption
    <3>3. pc[spawned + 1] = "new"
      BY <3>2 DEF Inv, SpawnedInOrder
    <3> QED
      BY <2>1, <3>1, <3>3 DEF Begun, BeginsNow
  <2>3. ASSUME NEW z \in Zones, Acquire(z)
        PROVE  BeginsNow
    BY <2>1, <2>3 DEF Acquire, Goto, Begun, BeginsNow
  <2>4. ASSUME NEW z \in Zones, LookedUp(z) \/ Release(z) \/ Done(z)
        PROVE  BeginsNow
    BY <2>1, <2>4 DEF LookedUp, Release, Done, Goto, Begun, BeginsNow
  <2>5. CASE Respond \/ ClientLeaves \/ UNCHANGED vars
    BY <2>5 DEF Respond, ClientLeaves, vars, Begun, BeginsNow
  <2> QED
    BY <2>2, <2>3, <2>4, <2>5 DEF Next, Goroutine
<1>3. ASSUME NEW t \in Nat, t < now
      PROVE  BegunBy(t)' = BegunBy(t)
  BY <1>1, <1>2, <1>3 DEF BegunBy, Begun, BeginsNow
<1>4. (\A z \in Begun : began[z] <= now)'
  BY <1>1, <1>2 DEF Timely, BeginsNow
<1>5. BatchesBegin'
  <2> SUFFICES ASSUME NEW k \in Nat, k * Timeout < now'
               PROVE  \/ Zones \subseteq BegunBy(k * Timeout)'
                      \/ Cardinality(BegunBy(k * Timeout)') >= (k + 1) * Capacity
    BY DEF BatchesBegin
  <2>1. k * Timeout \in Nat /\ k * Timeout < now
    BY <1>1, Multiples
  <2>2. BegunBy(k * Timeout)' = BegunBy(k * Timeout)
    BY <1>3, <2>1
  <2> QED
    BY <2>1, <2>2 DEF Timely, BatchesBegin
<1>6. SweepTakesItsTime'
  BY <1>1 DEF Timely, SweepTakesItsTime
<1> QED
  BY <1>4, <1>5, <1>6 DEF Timely

(* Time passes only while all wait, and so only while batches are full.    *)
LEMMA TickIsTimely ==
  ASSUME Inv, DeadlinesAreOwn, Timely, Tick
  PROVE  Timely'
<1>1. /\ now \in Nat /\ now' = now + 1 /\ began \in [Zones -> Nat] /\ deadline \in [Zones -> Nat]
      /\ UNCHANGED <<pc, began>>
      /\ N \in Nat /\ Capacity \in Nat \ {0} /\ Timeout \in Nat \ {0}
  BY SweepAssumption, Zenon DEF Inv, TypeOK, Tick, SweepAssumption
<1>2. \A z \in Running : \/ pc[z] = "queued" /\ sem = Capacity
                         \/ pc[z] = "looking" /\ now < deadline[z]
  BY Zenon DEF Tick
<1>3. /\ Holding \subseteq Begun /\ Begun \subseteq Zones
      /\ \A z \in Holding : now < began[z] + Timeout
  BY <1>2 DEF Holding, Running, Begun, DeadlinesAreOwn
<1>4. \A z \in Begun : began[z] \in Nat /\ began[z] <= now
  BY <1>1, <1>3 DEF Timely
<1>5. (\A z \in Begun : began[z] <= now)'
  BY <1>1, <1>4 DEF Begun
<1>6. BegunBy(now) = Begun
  BY <1>4 DEF BegunBy
<1>7. Begun = Zones \/ (sem = Capacity /\ Cardinality(Holding) = Capacity)
  <2>1. ASSUME NEW z \in Zones \ Begun
        PROVE  sem = Capacity
    <3>1. pc[z] # "new"
      BY <1>1 DEF Tick, Inv, SpawnedInOrder, Zones
    <3>2. pc[z] = "queued" /\ z \in Running
      BY <2>1, <3>1 DEF Begun, Running
    <3> QED
      BY <1>2, <3>2
  <2> QED
    BY <1>3, <2>1 DEF Inv, CountersAreRight
<1>8. BatchesBegin'
  <2> SUFFICES ASSUME NEW k \in Nat, k * Timeout < now + 1
               PROVE  \/ Zones \subseteq BegunBy(k * Timeout)
                      \/ Cardinality(BegunBy(k * Timeout)) >= (k + 1) * Capacity
    BY <1>1 DEF BatchesBegin, BegunBy, Begun
  <2>1. k * Timeout \in Nat
    BY Multiples
  <2>2. CASE k * Timeout < now
    BY <2>2 DEF Timely, BatchesBegin
  <2>3. CASE k * Timeout = now /\ Begun = Zones
    BY <1>6, <2>3
  <2>4. CASE k * Timeout = now /\ Cardinality(Holding) = Capacity /\ k = 0
    <3>1. Cardinality(Holding) <= Cardinality(Begun)
      BY <1>3, ZonesAreFinite, FS_Subset
    <3> QED
      BY <1>6, <2>4, <3>1, Multiples
  <2>5. CASE k * Timeout = now /\ Cardinality(Holding) = Capacity /\ k # 0
    <3> DEFINE j == k - 1
    <3>1. j \in Nat /\ k = j + 1
      BY <2>5
    <3> HIDE DEF j
    <3>2. /\ j * Timeout \in Nat /\ j * Timeout + Timeout = now
          /\ j * Capacity \in Nat
          /\ k * Capacity = j * Capacity + Capacity
          /\ (k + 1) * Capacity = k * Capacity + Capacity
      BY <2>5, <3>1, Multiples
    <3>3. \/ Zones \subseteq BegunBy(j * Timeout)
          \/ Cardinality(BegunBy(j * Timeout)) >= k * Capacity
      BY <1>1, <3>1, <3>2 DEF Timely, BatchesBegin
    <3>4. BegunBy(j * Timeout) \subseteq Begun /\ BegunBy(j * Timeout) \cap Holding = {}
      BY <1>1, <1>3, <1>4, <3>2 DEF BegunBy
    <3>5. CASE Zones \subseteq BegunBy(j * Timeout)
      BY <1>6, <2>5, <3>4, <3>5
    <3>6. CASE Cardinality(BegunBy(j * Timeout)) >= k * Capacity
      <4> DEFINE early == BegunBy(j * Timeout)
      <4>1. /\ early \in SUBSET Zones /\ Holding \in SUBSET Zones
            /\ early \cup Holding \subseteq Begun
        BY <1>3, <3>4
      <4> HIDE DEF early
      <4>2. /\ IsFiniteSet(early) /\ IsFiniteSet(Holding) /\ IsFiniteSet(Begun)
            /\ Cardinality(early) \in Nat /\ Cardinality(Holding) \in Nat
            /\ Cardinality(Begun) \in Nat
        <5>1. /\ IsFiniteSet(early) /\ IsFiniteSet(Holding) /\ IsFiniteSet(Begun)
          BY <1>3, <4>1, ZonesAreFinite
        <5> QED
          BY <5>1, FS_CardinalityType
      <4>3. Cardinality(early \cup Holding) = Cardinality(early) + Cardinality(Holding)
        <5>1. early \cap Holding = {}
          BY <3>4 DEF early
        <5>2. /\ Cardinality(early \cup Holding) =
                   Cardinality(early) + Cardinality(Holding) - Cardinality(early \cap Holding)
          BY <4>2, FS_Union
        <5>3. Cardinality(early \cap Holding) = 0
          BY <5>1, FS_EmptySet
        <5> QED
          BY <4>2, <5>2, <5>3
      <4>4. Cardinality(early \cup Holding) <= Cardinality(Begun)
        BY <4>1, <4>2, FS_Subset
      <4>5. Cardinality(early) >= k * Capacity
        BY <3>6 DEF early
      <4>6. Cardinality(Begun) >= k * Capacity + Capacity
        BY <1>1, <2>5, <3>2, <4>2, <4>3, <4>4, <4>5
      <4> QED
        BY <1>6, <2>5, <3>2, <4>6
    <3> QED
      BY <3>3, <3>5, <3>6
  <2> QED
    BY <1>1, <1>7, <2>1, <2>2, <2>3, <2>4, <2>5
<1>9. SweepTakesItsTime'
  <2>1. now <= Batches * Timeout /\ Batches \in Nat /\ Batches * Timeout \in Nat
    BY RoomForAll, Multiples DEF Timely, SweepTakesItsTime, Batches
  <2>2. now # Batches * Timeout
    <3> SUFFICES ASSUME now = Batches * Timeout
                 PROVE  FALSE
      OBVIOUS
    <3>1. PICK z \in Running : TRUE
      BY DEF Tick
    <3>2. z \in Zones /\ N > 0
      BY <1>1, <3>1 DEF Running, Zones
    <3> DEFINE j == Batches - 1
    <3>3. j \in Nat /\ Batches = j + 1
      BY <1>1, <3>2, RoomForAll
    <3> HIDE DEF j
    <3>4. j * Timeout \in Nat /\ j * Timeout + Timeout = now
      BY <3>3, Multiples
    <3>5. \/ Zones \subseteq BegunBy(j * Timeout)
          \/ Cardinality(BegunBy(j * Timeout)) >= Batches * Capacity
      BY <1>1, <3>3, <3>4 DEF Timely, BatchesBegin
    <3>6. BegunBy(j * Timeout) \in SUBSET Zones
      BY <1>3 DEF BegunBy
    <3>7. Zones \subseteq BegunBy(j * Timeout)
      <4>1. CASE Cardinality(BegunBy(j * Timeout)) >= Batches * Capacity
        <5>1. Cardinality(BegunBy(j * Timeout)) \in Nat /\ Cardinality(BegunBy(j * Timeout)) <= N
          BY <3>6, ZonesAreFinite
        <5>2. Batches * Capacity \in Nat /\ N <= Batches * Capacity
          BY RoomForAll, Multiples
        <5>3. Cardinality(BegunBy(j * Timeout)) = Cardinality(Zones)
          BY <1>1, <4>1, <5>1, <5>2, ZonesAreFinite
        <5> QED
          BY <3>6, <5>3, ZonesAreFinite, FS_Subset
      <4> QED
        BY <3>5, <4>1
    <3>8. z \in Begun /\ began[z] <= j * Timeout
      BY <3>2, <3>7 DEF BegunBy
    <3>9. pc[z] = "looking" /\ now < began[z] + Timeout
      BY <1>2, <3>1, <3>8 DEF Begun, DeadlinesAreOwn
    <3> QED
      BY <1>1, <1>4, <3>4, <3>8, <3>9
  <2>3. now + 1 <= Batches * Timeout
    BY <1>1, <2>1, <2>2
  <2> QED
    BY <1>1, <2>3 DEF SweepTakesItsTime, Batches
<1> QED
  BY <1>5, <1>8, <1>9 DEF Timely

LEMMA InitIsTimely == Init => Timely
<1> SUFFICES ASSUME Init PROVE Timely
  OBVIOUS
<1>1. now = 0 /\ Begun = {}
  BY DEF Init, Begun
<1>2. BatchesBegin
  <2> SUFFICES ASSUME NEW k \in Nat PROVE ~(k * Timeout < 0)
    BY <1>1 DEF BatchesBegin
  <2> QED
    BY Multiples
<1>3. SweepTakesItsTime
  <2>1. Batches * Timeout \in Nat
    BY RoomForAll, Multiples
  <2> QED
    BY <1>1, <2>1 DEF SweepTakesItsTime, Batches
<1> QED
  BY <1>1, <1>2, <1>3 DEF Timely

(* For any number of zones and places: the sweep takes at most one timeout *)
(* for each batch of as many zones as there are places.                    *)
THEOREM TakesItsTime == Spec => []SweepTakesItsTime
<1>1. Init => DeadlinesAreOwn /\ NoTimeoutInTheQueue
  BY DEF Init, DeadlinesAreOwn, NoTimeoutInTheQueue
<1>2. Inv /\ DeadlinesAreOwn /\ Timely /\ [Next]_vars => Timely'
  BY StepIsTimely, TickIsTimely
<1>3. Timely => SweepTakesItsTime
  BY DEF Timely
<1> QED
  BY <1>1, <1>2, <1>3, InitIsTimely, QueueStep, Invariance, PTL DEF Spec

(* What a step of the sweep is to its caller: writing a slot judges a      *)
(* zone, responding responds, and every other step is out of its sight.    *)
LEMMA StepIsPromised ==
  ASSUME Inv, [Next]_vars
  PROVE  [Promised!Next]_<<results, responses>>
  <1>1. ASSUME NEW z \in Zones, LookedUp(z)
        PROVE  Promised!Judge(z)
    <2>1. pc[z] = "looking" /\ results[z] = "unset" /\ responses' = responses
      BY <1>1 DEF LookedUp, Inv, SlotsAreWritten
    <2>2. responses = <<>>
      BY <2>1, GoroutineIsRunning DEF Running
    <2>3. QED
      BY <1>1, <2>1, <2>2 DEF LookedUp, Promised!Judge, Promised!Unset
  <1>2. CASE Respond
    BY <1>2, AllDoneAtRespond DEF Respond, Promised!Respond, Promised!Next, Promised!Unset
  <1>3. ASSUME NEW z \in Zones, Acquire(z) \/ Release(z) \/ Done(z)
        PROVE  UNCHANGED <<results, responses>>
    BY <1>3 DEF Acquire, Release, Done
  <1>4. CASE Spawn \/ ClientLeaves \/ Tick \/ UNCHANGED vars
    BY <1>4 DEF Spawn, ClientLeaves, Tick, vars
  <1>5. QED
    BY <1>1, <1>2, <1>3, <1>4 DEF Next, Goroutine, Promised!Next

(* The handler implements Sweep. *)
THEOREM Refinement == Spec => ImplementsSweep
  <1>1. Init => Promised!Init
    BY DEF Init, Promised!Init, Promised!Unset
  <1>2. QED
    BY <1>1, StepIsPromised, Invariance, PTL DEF Spec, ImplementsSweep, Promised!Spec

-----------------------------------------------------------------------------
(* What a sweep in the server keeps to. *)
SweepInv == Inv /\ DeadlinesAreOwn /\ NoTimeoutInTheQueue

-----------------------------------------------------------------------------
(* The sweep within the server *)

(* Time that passes elsewhere is none of the sweep's state. *)
LEMMA TimeKeepsInv ==
  ASSUME Inv, TimePasses
  PROVE  Inv'
<1>1. UNCHANGED <<spawned, pc, sem, wg, deadline, began, results, responses, gone>>
  BY DEF TimePasses
<1>2. now' \in Nat
  <2>1. now \in Nat
    BY Zenon DEF Inv, TypeOK
  <2> QED
    BY <2>1 DEF TimePasses
<1>3. TypeOK'
  BY <1>1, <1>2, Zenon DEF Inv, TypeOK
<1>4. CountersAreRight'
  BY <1>1 DEF Inv, CountersAreRight, Holding, Running
<1>5. SpawnedInOrder' /\ SlotsAreWritten' /\ ResponseIsComplete'
  BY <1>1 DEF Inv, SpawnedInOrder, SlotsAreWritten, ResponseIsComplete, Running
<1> QED
  BY <1>3, <1>4, <1>5 DEF Inv

(* Every step is one of the sweep, or lets it be, or is time. *)
LEMMA StepOfProbe ==
  ASSUME [ProbeNext]_probeVars
  PROVE  [Next]_vars \/ TimePasses
<1>1. CASE Handle
  BY <1>1 DEF Handle, Refuse, Panics, Enter, StageEnds, Sweeping, SweepResponds, StartDownload,
              StartUpload, WriteChunk, DownloadEnds, UploadEnds, Accept, EchoReads,
              EchoWrites, EchoFails, Next
<1>2. CASE SweepStep
  BY <1>2 DEF SweepStep, Next
<1>3. CASE BytesArrive \/ PeerSends
  BY <1>3 DEF BytesArrive, PeerSends
<1>4. CASE Leaves
  BY <1>4 DEF Leaves, Next
<1>5. CASE UNCHANGED probeVars
  BY <1>5 DEF probeVars
<1> QED
  BY <1>1, <1>2, <1>3, <1>4, <1>5 DEF ProbeNext

LEMMA SweepInvStep ==
  ASSUME SweepInv, [ProbeNext]_probeVars
  PROVE  SweepInv'
<1>1. CASE [Next]_vars
  BY <1>1, InvStep, QueueStep DEF SweepInv
<1>2. CASE TimePasses
  <2>1. DeadlinesAreOwn' /\ NoTimeoutInTheQueue'
    BY <1>2, TimeIsNoThreat, Zenon DEF TimePasses, SweepInv
  <2>2. QED
    BY <1>2, <2>1, TimeKeepsInv DEF SweepInv
<1> QED
  BY <1>1, <1>2, StepOfProbe

LEMMA SweepInvariance == ProbeSpec => []SweepInv
<1>1. ProbeInit => SweepInv
  BY InitInv DEF ProbeInit, Init, SweepInv, DeadlinesAreOwn, NoTimeoutInTheQueue
<1> QED
  BY <1>1, SweepInvStep, PTL DEF ProbeSpec

(* Within the server too no place of the semaphore and no count of the     *)
(* WaitGroup is lost, whatever the other handlers and the client do.       *)
THEOREM ServedCounters == ProbeSpec => []CountersAreRight
  BY SweepInvariance, PTL DEF SweepInv, Inv

(* Nor is a zone reported as timed out because its goroutine waited.       *)
THEOREM ServedUnhurried == ProbeSpec => []NoTimeoutInTheQueue
  BY SweepInvariance, PTL DEF SweepInv

(* The server implements the sweep that callers are promised: no other     *)
(* handler touches a slot, and the response is sent at most once.          *)
THEOREM ServedRefinement == ProbeSpec => ImplementsSweep
<1>1. ProbeInit => Promised!Init
  BY DEF ProbeInit, Init, Promised!Init, Promised!Unset
<1>2. ASSUME SweepInv, [ProbeNext]_probeVars
      PROVE  [Promised!Next]_<<results, responses>>
  <2>1. CASE [Next]_vars
    BY <1>2, <2>1, StepIsPromised DEF SweepInv
  <2>2. CASE TimePasses
    BY <2>2 DEF TimePasses
  <2> QED
    BY <1>2, <2>1, <2>2, StepOfProbe
<1> QED
  BY <1>1, <1>2, SweepInvariance, PTL DEF ProbeSpec, ImplementsSweep, Promised!Spec

-----------------------------------------------------------------------------
(* The speed test and the echo *)

Places == {"start", "stage", "sweep", "download", "upload", "reading", "writing", "ended"}

(* Each place of the server belongs to handlers of its own, and only a     *)
(* handler that has begun has moved anything.                              *)
PlacesAreOwn ==
  /\ at \in Places
  /\ at = "stage" => handler \in Staged
  /\ at = "sweep" => handler = "dnsbl"
  /\ at = "download" => handler = "download"
  /\ at = "upload" => handler = "upload"
  /\ at \in {"reading", "writing"} => handler = "ws"
  /\ at # "ended" => answer = "none"
  /\ at = "start" => moved = 0 /\ total = 0

AmountsAreRight ==
  /\ now \in Nat /\ total \in Nat /\ moved \in Nat
  /\ moved <= total
  /\ at = "download" => total \in 1 .. MaxSpeedBytes
  /\ handler = "download" => total <= MaxSpeedBytes

TransferInv == PlacesAreOwn /\ AmountsAreRight /\ TransfersAreCounted

(* What has been echoed is what has been taken, but for the message that   *)
(* is being written.                                                       *)
EchoInv ==
  /\ handler \in Handlers
  /\ sent \in Nat /\ taken \in 0 .. sent /\ echoed \in Seq(Nat)
  /\ \A i \in 1 .. Len(echoed) : echoed[i] = i
  /\ at = "writing" => taken = Len(echoed) + 1
  /\ at \notin {"writing", "ended"} => Len(echoed) = taken
  /\ at = "ended" => taken - Len(echoed) <= 1

LEMMA LengthInBounds ==
  ASSUME NEW n \in Amounts
  PROVE  Length(n) \in 1 .. MaxSpeedBytes
  BY ProbeAssumption DEF Amounts, Length, ProbeAssumption

LEMMA PieceFits ==
  ASSUME total \in Nat, moved \in Nat, moved < total
  PROVE  moved + Piece \in Nat /\ moved + Piece <= total
  BY ProbeAssumption DEF Piece, ProbeAssumption

(* The parts of the state a step leaves alone keep what was true of them.  *)
LEMMA TransferStep ==
  ASSUME TransferInv, [ProbeNext]_probeVars
  PROVE  TransferInv'
<1> USE DEF TransferInv, PlacesAreOwn, AmountsAreRight, TransfersAreCounted, Places, Staged
<1>1. CASE Refuse \/ Panics
  <2>1. CASE Refuse
    BY <2>1, ProbeAssumption DEF Refuse, End, vars, ProbeAssumption
  <2>2. CASE Panics
    BY <2>2, ProbeAssumption DEF Panics, End, vars, ProbeAssumption
  <2> QED
    BY <1>1, <2>1, <2>2
<1>2. CASE Enter \/ StageEnds
  BY <1>2 DEF Enter, StageEnds, EnterStage, WriteJSON, End, vars
<1>3. CASE Sweeping
  BY <1>3 DEF Sweeping, vars
<1>4. CASE SweepResponds
  BY <1>4 DEF SweepResponds, Respond, WriteJSON, End
<1>5. CASE \E n \in Amounts : StartDownload(n)
  BY <1>5, LengthInBounds DEF StartDownload, vars
<1>6. CASE \E n \in Amounts : StartUpload(n)
  BY <1>6 DEF StartUpload, Amounts, vars
<1>7. CASE WriteChunk
  BY <1>7, PieceFits DEF WriteChunk, vars
<1>8. CASE DownloadEnds
  <2>1. at = "download" /\ at' = "ended" /\ UNCHANGED <<now, gone, handler, total, moved>>
    BY <1>8 DEF DownloadEnds, End, vars
  <2>2. moved <= total /\ total \in 1 .. MaxSpeedBytes
    BY <2>1
  <2>3. CASE moved >= total /\ answer' = "delivered"
    BY <2>1, <2>2, <2>3
  <2>4. CASE (gone \/ now >= WriteTimeout) /\ answer' = "cut off"
    BY <2>1, <2>2, <2>4
  <2> QED
    BY <1>8, <2>3, <2>4 DEF DownloadEnds, End
<1>9. CASE UploadEnds
  BY <1>9, ProbeAssumption DEF UploadEnds, Wanted, WriteJSON, End, vars, ProbeAssumption
<1>10. CASE Accept \/ EchoReads \/ EchoWrites \/ EchoFails
  BY <1>10 DEF Accept, EchoReads, EchoWrites, EchoFails, AwaitMessage, End, vars
<1>11. CASE SweepStep
  <2>1. UNCHANGED probeOnly /\ at = "sweep" /\ now' \in Nat
    <3>1. SweepStep => now' = now \/ now' = now + 1
      BY DEF SweepStep, Spawn, Goroutine, Acquire, LookedUp, Release, Done, Tick
    <3> QED
      BY <1>11, <3>1 DEF SweepStep
  <2> QED
    BY <2>1 DEF probeOnly
<1>12. CASE BytesArrive
  BY <1>12, ProbeAssumption DEF BytesArrive, Wanted, vars, ProbeAssumption
<1>13. CASE PeerSends
  BY <1>13 DEF PeerSends, vars
<1>14. CASE TimePasses
  <2>1. at # "ended"
    BY <1>14 DEF TimePasses, Waits
  <2>2. now' = now + 1 /\ UNCHANGED probeOnly
    BY <1>14 DEF TimePasses
  <2> QED
    BY <2>1, <2>2 DEF probeOnly
<1>15. CASE Leaves
  BY <1>15 DEF Leaves, ClientLeaves, probeOnly
<1>16. CASE UNCHANGED probeVars
  BY <1>16 DEF probeVars, probeOnly, vars
<1> QED
  BY <1>1, <1>2, <1>3, <1>4, <1>5, <1>6, <1>7, <1>8, <1>9, <1>10, <1>11, <1>12, <1>13,
     <1>14, <1>15, <1>16 DEF ProbeNext, Handle

(* For any cap, piece and timeout: the speed test never sends more than it *)
(* announced, and never reports an upload that it did not receive.         *)
THEOREM Transfers == ProbeSpec => []TransfersAreCounted
<1>1. ProbeInit => TransferInv
  BY ProbeAssumption DEF ProbeInit, Init, TransferInv, PlacesAreOwn, AmountsAreRight,
     TransfersAreCounted, Places, ProbeAssumption
<1> QED
  BY <1>1, TransferStep, PTL DEF ProbeSpec, TransferInv

(* The answers are in time *)

(* The handlers that begin by resolving a name, without a limit.           *)
Resolves == {"dns", "ping", "traceroute"}

(* The seconds that the stages of the others up to the i-th take at most. *)
Spent(h, i) == IF i = 1 THEN Stages(h)[1] ELSE Stages(h)[1] + Stages(h)[2]

(* The limit of what follows the resolving ends that much after it. *)
AfterResolving ==
  \/ stage = 1 /\ until = NoLimit
  \/ /\ stage = 2 /\ handler \in {"ping", "traceroute"}
     /\ until \in Nat /\ resolved \in Nat /\ now <= until
     /\ until <= resolved + Stages(handler)[2]

WithinLimits ==
  /\ stage \in 1 .. Len(Stages(handler))
  /\ until \in Nat /\ now <= until /\ until <= Spent(handler, stage)

TookTooLong == ResolvingTakes(WriteTimeout) \/ SweepsTake(WriteTimeout)

(* Every place that writes an answer is reached before the server stops    *)
(* writing, but for those behind a name or a long list of zones.           *)
OnTime ==
  /\ at = "start" => now = 0
  /\ at = "stage" => IF handler \in Resolves THEN AfterResolving ELSE WithinLimits
  /\ at = "upload" => now <= ReadTimeout
  /\ answer = "lost" => at = "ended" /\ (gone \/ TookTooLong)

(* The sweep takes no time but its own. *)
InTime == OnTime /\ (handler = "dnsbl" => Timely)

LEMMA StagesFit ==
  ASSUME NEW h \in Staged \ Resolves
  PROVE  /\ Len(Stages(h)) \in {1, 2}
         /\ \A i \in 1 .. Len(Stages(h)) :
              /\ Stages(h)[i] \in Nat /\ Stages(h)[i] # NoLimit
              /\ Spent(h, i) \in Nat /\ Spent(h, i) < WriteTimeout
<1>1. WriteTimeout \in Nat /\ 16 < WriteTimeout /\ NoLimit \notin Nat
  BY ProbeAssumption DEF ProbeAssumption
<1>2. CASE h \in {"tcp", "http"}
  <2>1. PICK t \in Nat : Stages(h) = <<t>> /\ t < WriteTimeout
    BY <1>1, <1>2 DEF Stages
  <2> QED
    BY <1>1, <2>1 DEF Spent
<1>3. CASE h \in {"smtp", "ssl"}
  <2>1. PICK t \in Nat, u \in Nat : Stages(h) = <<t, u>> /\ t + u < WriteTimeout
    BY <1>1, <1>3 DEF Stages
  <2> QED
    BY <1>1, <2>1 DEF Spent
<1> QED
  BY <1>2, <1>3 DEF Staged, Resolves

LEMMA StagesThatResolve ==
  ASSUME NEW h \in Resolves
  PROVE  /\ h = "dns" => Stages(h) = <<NoLimit>>
         /\ h = "ping" => Stages(h) = <<NoLimit, 8>>
         /\ h = "traceroute" => Stages(h) = <<NoLimit, 11>>
  BY DEF Stages, Resolves

(* The sweep's share: only its own clock runs while it does. *)
LEMMA SweepInTime ==
  ASSUME SweepInv, PlacesAreOwn, handler = "dnsbl", Timely, [ProbeNext]_probeVars
  PROVE  Timely'
<1>1. ~TimePasses
  BY DEF TimePasses, Waits, PlacesAreOwn, Staged
<1>2. [Next]_vars
  BY <1>1, StepOfProbe
<1>3. CASE Tick
  BY <1>3, TickIsTimely DEF SweepInv
<1>4. CASE ~Tick
  BY <1>2, <1>4, StepIsTimely DEF SweepInv
<1> QED
  BY <1>3, <1>4

LEMMA GoneStays ==
  ASSUME gone, [ProbeNext]_probeVars
  PROVE  gone'
<1>1. CASE TimePasses
  BY <1>1 DEF TimePasses
<1>2. CASE [Next]_vars
  BY <1>2, Zenon DEF Next, Spawn, Goroutine, Acquire, LookedUp, Release, Done, Respond, ClientLeaves,
                     Tick, vars
<1> QED
  BY <1>1, <1>2, StepOfProbe

LEMMA InTimeStep ==
  ASSUME SweepInv, TransferInv, InTime, [ProbeNext]_probeVars
  PROVE  InTime'
<1>1. /\ now \in Nat /\ WriteTimeout \in Nat /\ ReadTimeout \in Nat /\ ReadTimeout < WriteTimeout
  <2>1. now \in Nat
    BY Zenon DEF SweepInv, Inv, TypeOK
  <2> QED
    BY <2>1, ProbeAssumption DEF ProbeAssumption
<1>2. PlacesAreOwn
  BY DEF TransferInv
<1>3. handler' = handler
  BY DEF ProbeNext, Handle, Refuse, Panics, Enter, StageEnds, Sweeping, SweepResponds, StartDownload, StartUpload,
         WriteChunk, DownloadEnds, UploadEnds, Accept, EchoReads, EchoWrites, EchoFails, SweepStep,
         BytesArrive, PeerSends, TimePasses, Leaves, probeVars, probeOnly
<1>4. handler' = "dnsbl" => Timely'
  BY <1>2, <1>3, SweepInTime DEF InTime
<1> SUFFICES OnTime'
  BY <1>4 DEF InTime
<1>0. /\ Stages(handler)' = Stages(handler)
      /\ Spent(handler, 1)' = Spent(handler, 1) /\ Spent(handler, 2)' = Spent(handler, 2)
  BY <1>3 DEF Stages, Spent
<1>5. OnTime
  BY DEF InTime
<1>6. ASSUME WriteJSON, now < WriteTimeout \/ TookTooLong', UNCHANGED gone
      PROVE  OnTime'
  <2>1. at' = "ended" /\ (answer' = "lost" => gone \/ now >= WriteTimeout)
    BY <1>6 DEF WriteJSON, End
  <2> QED
    BY <1>1, <1>6, <2>1 DEF OnTime
<1>7. ASSUME at # "ended", answer' # "lost", at' = "ended"
      PROVE  OnTime'
  BY <1>7 DEF OnTime
<1>8. CASE Refuse \/ Panics \/ DownloadEnds \/ EchoFails
  BY <1>7, <1>8 DEF Refuse, Panics, DownloadEnds, EchoFails, End
<1>9. ASSUME at # "ended", answer' = answer, at' \notin {"start", "stage"}, at' = "upload" => now' <= ReadTimeout
      PROVE  OnTime'
  BY <1>5, <1>9 DEF OnTime
<1>10. CASE Enter
  <2>1. /\ at' = "stage" /\ stage' = 1 /\ now = 0 /\ handler \in Staged
        /\ until' = IF Stages(handler)[1] = NoLimit THEN NoLimit ELSE now + Stages(handler)[1]
        /\ UNCHANGED <<now, handler, answer, gone>> /\ answer # "lost"
    BY <1>5, <1>10 DEF OnTime, Enter, EnterStage, vars
  <2>2. CASE handler \in Resolves
    <3>1. Stages(handler)[1] = NoLimit
      BY <2>2, StagesThatResolve DEF Resolves
    <3> QED
      BY <1>3, <2>1, <2>2, <3>1 DEF OnTime, AfterResolving
  <2>3. CASE handler \notin Resolves
    <3>1. until' = Stages(handler)[1] /\ until' \in Nat /\ 1 \in 1 .. Len(Stages(handler))
      BY <2>1, <2>3, StagesFit
    <3>2. WithinLimits'
      BY <1>0, <2>1, <3>1 DEF WithinLimits, Spent
    <3> QED
      BY <1>3, <2>1, <2>3, <3>2 DEF OnTime
  <2> QED
    BY <2>2, <2>3
<1>11. CASE StageEnds /\ handler \notin Resolves
  <2>1. /\ handler \in Staged \ Resolves /\ stage \in 1 .. Len(Stages(handler)) /\ until \in Nat
        /\ now <= until /\ until <= Spent(handler, stage) /\ UNCHANGED <<now, handler, gone>>
        /\ at = "stage" /\ answer # "lost"
    BY <1>2, <1>5, <1>11 DEF OnTime, WithinLimits, StageEnds, PlacesAreOwn, vars
  <2>2. CASE WriteJSON
    <3>1. Spent(handler, stage) \in Nat /\ Spent(handler, stage) < WriteTimeout
      BY <2>1, StagesFit
    <3>2. now < WriteTimeout
      BY <1>1, <2>1, <3>1
    <3> QED
      BY <1>6, <2>1, <2>2, <3>2
  <2>3. CASE stage < Len(Stages(handler)) /\ EnterStage(stage + 1)
    <3>0. Len(Stages(handler)) \in {1, 2}
      BY <2>1, StagesFit
    <3>1. /\ at' = "stage" /\ stage = 1 /\ stage' = 2 /\ 2 = Len(Stages(handler)) /\ answer' = answer
          /\ until' = IF Stages(handler)[2] = NoLimit THEN NoLimit ELSE now + Stages(handler)[2]
      BY <2>1, <2>3, <3>0 DEF EnterStage
    <3>2. Spent(handler, 1) = Stages(handler)[1] /\ Spent(handler, 2) = Stages(handler)[1] + Stages(handler)[2]
      BY DEF Spent
    <3>3. /\ Stages(handler)[1] \in Nat /\ Stages(handler)[2] \in Nat /\ Stages(handler)[2] # NoLimit
          /\ now <= Stages(handler)[1]
      <4>1. \A i \in 1 .. 2 : Stages(handler)[i] \in Nat /\ Stages(handler)[i] # NoLimit
        BY <2>1, <3>1, StagesFit
      <4>2. now <= until /\ until <= Spent(handler, 1)
        BY <2>1, <3>1
      <4> QED
        BY <1>1, <2>1, <3>2, <4>1, <4>2
    <3>4. until' \in Nat /\ now <= until' /\ until' <= Spent(handler, 2)
      BY <1>1, <3>1, <3>2, <3>3
    <3>5. WithinLimits'
      <4>1. Spent(handler, stage)' = Spent(handler, 2)
        BY <1>0, <2>1, <3>1 DEF Spent
      <4>2. (1 .. Len(Stages(handler)))' = 1 .. 2 /\ now' = now
        BY <1>0, <2>1, <3>1
      <4> QED
        BY <3>1, <3>4, <4>1, <4>2 DEF WithinLimits
    <3> QED
      BY <2>1, <3>1, <3>5 DEF OnTime
  <2> QED
    BY <1>11, <2>2, <2>3 DEF StageEnds
<1>12. CASE StageEnds /\ handler \in Resolves
  <2>1. /\ at = "stage" /\ answer # "lost" /\ AfterResolving /\ UNCHANGED <<now, handler, gone>>
        /\ resolved' = IF until = NoLimit THEN now ELSE resolved
    BY <1>5, <1>12 DEF OnTime, StageEnds, vars
  <2>2. NoLimit \notin Nat
    BY ProbeAssumption DEF ProbeAssumption
  <2>3. CASE WriteJSON
    <3>1. CASE stage = 1 /\ until = NoLimit
      <4>1. resolved' = now
        BY <2>1, <3>1
      <4>2. now >= WriteTimeout => ResolvingTakes(WriteTimeout)'
        BY <1>1, <1>12, <2>1, <4>1 DEF ResolvingTakes, Resolves
      <4> QED
        BY <1>1, <1>6, <2>1, <2>3, <4>2 DEF TookTooLong
    <3>2. CASE ~(stage = 1 /\ until = NoLimit)
      <4>1. /\ handler \in {"ping", "traceroute"} /\ until \in Nat /\ resolved \in Nat /\ now <= until
            /\ until <= resolved + Stages(handler)[2] /\ resolved' = resolved
        BY <2>1, <2>2, <3>2 DEF AfterResolving
      <4>2. /\ handler = "ping" => Stages(handler)[2] = 8
            /\ handler = "traceroute" => Stages(handler)[2] = 11
        BY <1>12, StagesThatResolve
      <4>3. now >= WriteTimeout => ResolvingTakes(WriteTimeout)'
        BY <1>1, <2>1, <4>1, <4>2 DEF ResolvingTakes
      <4> QED
        BY <1>1, <1>6, <2>1, <2>3, <4>3 DEF TookTooLong
    <3> QED
      BY <3>1, <3>2
  <2>4. CASE stage < Len(Stages(handler)) /\ EnterStage(stage + 1)
    <3>1. stage = 1 /\ until = NoLimit /\ handler \in {"ping", "traceroute"}
      <4>1. handler # "dns" \/ Len(Stages(handler)) = 1
        BY <1>12, StagesThatResolve
      <4>2. handler \in {"ping", "traceroute"} => Len(Stages(handler)) = 2
        BY <1>12, StagesThatResolve
      <4> QED
        <5>1. handler \in {"dns", "ping", "traceroute"} /\ (stage = 1 \/ stage = 2)
              /\ (stage = 1 => until = NoLimit)
          BY <1>12, <2>1, <2>2 DEF AfterResolving, Resolves
        <5>2. stage < Len(Stages(handler))
          BY <2>4
        <5>3. handler # "dns"
          <6> DEFINE many == Len(Stages(handler))
          <6>1. many = 1 => ~(1 < many) /\ ~(2 < many)
            OBVIOUS
          <6>2. (stage = 1 \/ stage = 2) /\ stage < many
            BY <5>1, <5>2
          <6>3. many # 1
            <7> HIDE DEF many
            <7> QED
              BY <6>1, <6>2
          <6> QED
            BY <4>1, <6>3
        <5>4. stage = 1
          BY <4>2, <5>1, <5>2, <5>3
        <5> QED
          BY <5>1, <5>3, <5>4
    <3>2. Stages(handler)[2] \in Nat /\ Stages(handler)[2] # NoLimit
      BY <1>12, <2>2, <3>1, StagesThatResolve
    <3>3. /\ at' = "stage" /\ stage' = 2 /\ answer' = answer /\ resolved' = now
          /\ until' = now + Stages(handler)[2]
      BY <2>1, <2>4, <3>1, <3>2 DEF EnterStage
    <3>4. until' \in Nat /\ now <= until' /\ until' <= resolved' + Stages(handler)[2]
      BY <1>1, <3>2, <3>3
    <3>5. AfterResolving'
      BY <1>0, <1>1, <2>1, <3>1, <3>3, <3>4 DEF AfterResolving
    <3> QED
      BY <1>12, <2>1, <3>3, <3>5 DEF OnTime
  <2> QED
    BY <1>12, <2>3, <2>4 DEF StageEnds
<1>13. CASE SweepResponds
  <2>1. handler = "dnsbl" /\ WriteJSON /\ UNCHANGED <<now, gone, handler>>
    BY <1>2, <1>13 DEF SweepResponds, Respond, PlacesAreOwn
  <2>2. now < WriteTimeout \/ TookTooLong'
    <3>1. now <= Batches * Timeout
      BY <2>1 DEF InTime, Timely, SweepTakesItsTime, Batches
    <3>2. Batches * Timeout \in Nat
      BY RoomForAll, Multiples
    <3>3. CASE Batches * Timeout < WriteTimeout
      BY <1>1, <3>1, <3>2, <3>3
    <3>4. CASE Batches * Timeout >= WriteTimeout
      BY <2>1, <3>4 DEF TookTooLong, SweepsTake, Batches
    <3> QED
      BY <1>1, <3>2, <3>3, <3>4
  <2> QED
    BY <1>6, <2>1, <2>2
<1>14. CASE UploadEnds
  <2>1. now < WriteTimeout /\ WriteJSON /\ UNCHANGED gone
    BY <1>1, <1>5, <1>14 DEF OnTime, UploadEnds, vars
  <2> QED
    BY <1>6, <2>1
<1>15. CASE Sweeping \/ Accept \/ EchoReads \/ EchoWrites \/ WriteChunk
  BY <1>9, <1>15 DEF Sweeping, Accept, AwaitMessage, EchoReads, EchoWrites, WriteChunk
<1>16. CASE BytesArrive \/ PeerSends
  BY <1>1, <1>9, <1>16 DEF BytesArrive, PeerSends, vars
<1>17. CASE \E n \in Amounts : StartDownload(n) \/ StartUpload(n)
  <2>1. now = 0 /\ now' = now
    BY <1>5, <1>17 DEF OnTime, StartDownload, StartUpload, vars
  <2> QED
    BY <1>1, <1>9, <1>17, <2>1 DEF StartDownload, StartUpload
<1>18. CASE SweepStep
  BY <1>9, <1>18 DEF SweepStep, probeOnly
<1>19. CASE TimePasses
  <2>1. /\ UNCHANGED <<handler, at, stage, until, resolved, answer, gone>> /\ now' = now + 1
        /\ Waits /\ at \in {"stage", "reading", "writing", "download", "upload"}
    BY <1>19 DEF TimePasses, probeOnly, Waits
  <2>2. CASE at = "stage"
    <3>1. until = NoLimit \/ now < until
      BY <2>1, <2>2 DEF Waits
    <3>2. NoLimit \notin Nat
      BY ProbeAssumption DEF ProbeAssumption
    <3>3. AfterResolving => AfterResolving'
      BY <1>0, <1>1, <2>1, <3>1, <3>2 DEF AfterResolving
    <3>4. WithinLimits => WithinLimits'
      BY <1>0, <1>1, <2>1, <3>1, <3>2 DEF WithinLimits, Spent
    <3> QED
      BY <1>5, <2>1, <2>2, <3>3, <3>4 DEF OnTime
  <2>3. CASE at = "upload"
    BY <1>1, <1>9, <2>1, <2>3 DEF Waits
  <2> QED
    BY <1>9, <2>1, <2>2, <2>3
<1>20. CASE Leaves \/ UNCHANGED probeVars
  <2>1. UNCHANGED <<now, handler, at, stage, until, resolved, answer>> /\ (gone => gone')
    BY <1>20 DEF Leaves, ClientLeaves, probeVars, probeOnly, vars
  <2>2. AfterResolving' = AfterResolving /\ WithinLimits' = WithinLimits /\ TookTooLong' = TookTooLong
    BY <2>1 DEF AfterResolving, WithinLimits, Spent, Stages, TookTooLong, ResolvingTakes, SweepsTake
  <2> QED
    BY <1>5, <2>1, <2>2 DEF OnTime
<1> QED
  BY <1>8, <1>10, <1>11, <1>12, <1>13, <1>14, <1>15, <1>16, <1>17, <1>18, <1>19, <1>20
     DEF ProbeNext, Handle

(* For any limits of the server above those of the stages, any zones and   *)
(* however long resolving takes: an answer is lost only when the client    *)
(* has gone, or what is in the handler's hands took too long: a name, or   *)
(* as many batches of zones.  The sweep takes one timeout for each batch.  *)
THEOREM Delivered == ProbeSpec => []AnswersAreDelivered
<1>1. ProbeInit => InTime /\ TransferInv
  BY InitIsTimely, ProbeAssumption
     DEF ProbeInit, InTime, OnTime, TransferInv, PlacesAreOwn, AmountsAreRight, TransfersAreCounted, Places,
         Init, ProbeAssumption
<1>2. InTime => AnswersAreDelivered
  BY DEF InTime, OnTime, TookTooLong, AnswersAreDelivered, Timely
<1>3. SweepInv /\ TransferInv /\ InTime /\ [ProbeNext]_probeVars => InTime' /\ TransferInv'
  BY InTimeStep, TransferStep
<1> QED
  BY <1>1, <1>2, <1>3, SweepInvariance, PTL DEF ProbeSpec

LEMMA EchoInvSays == EchoInv => EchoesInOrder
<1> SUFFICES ASSUME EchoInv
             PROVE  EchoesInOrder
  OBVIOUS
<1>1. echoed \in [1 .. Len(echoed) -> Nat] /\ \A i \in 1 .. Len(echoed) : echoed[i] = i
  BY LenProperties DEF EchoInv
<1>2. echoed = [i \in 1 .. Len(echoed) |-> i]
  BY <1>1, Zenon
<1>3. /\ taken <= sent
      /\ at = "reading" => Len(echoed) = taken
      /\ at = "ended" => taken - Len(echoed) <= 1
  BY DEF EchoInv
<1> QED
  BY <1>2, <1>3, Zenon DEF EchoesInOrder

LEMMA EchoStep ==
  ASSUME EchoInv, [ProbeNext]_probeVars
  PROVE  EchoInv'
<1> USE DEF EchoInv
<1>1. CASE Accept
  BY <1>1 DEF Accept, AwaitMessage
<1>2. CASE EchoReads
  BY <1>2 DEF EchoReads
<1>3. CASE EchoWrites
  <2>1. /\ taken = Len(echoed) + 1 /\ echoed' = Append(echoed, taken)
        /\ at' = "reading" /\ UNCHANGED <<handler, sent, taken>>
    BY <1>3 DEF EchoWrites, AwaitMessage
  <2>2. /\ echoed \in Seq(Nat) /\ taken \in Nat
        /\ \A i \in 1 .. Len(echoed) : echoed[i] = i
    OBVIOUS
  <2>3. /\ echoed' \in Seq(Nat) /\ Len(echoed') = Len(echoed) + 1
        /\ \A i \in 1 .. Len(echoed') : echoed'[i] = i
    <3> HIDE DEF EchoInv
    <3>1. QED
      BY <2>1, <2>2, AppendProperties
  <2> QED
    BY <2>1, <2>3
<1>4. CASE EchoFails \/ Refuse \/ Panics
  BY <1>4 DEF EchoFails, Refuse, Panics, End
<1>5. CASE PeerSends
  BY <1>5 DEF PeerSends
<1>6. ASSUME UNCHANGED <<handler, sent, taken, echoed>>,
             at \notin {"writing", "ended"}, at' \notin {"reading", "writing"}
      PROVE  EchoInv'
  BY <1>6
<1>7. ASSUME UNCHANGED <<handler, at, sent, taken, echoed>>
      PROVE  EchoInv'
  BY <1>7
<1>8. CASE Enter \/ StageEnds \/ Sweeping \/ SweepResponds
  BY <1>6, <1>8 DEF Enter, StageEnds, EnterStage, WriteJSON, End, Sweeping, SweepResponds
<1>9. CASE \E n \in Amounts : StartDownload(n) \/ StartUpload(n)
  BY <1>6, <1>9 DEF StartDownload, StartUpload
<1>10. CASE DownloadEnds \/ UploadEnds
  BY <1>6, <1>10 DEF DownloadEnds, UploadEnds, WriteJSON, End
<1>11. CASE WriteChunk \/ BytesArrive
  BY <1>7, <1>11 DEF WriteChunk, BytesArrive
<1>12. CASE SweepStep \/ TimePasses \/ Leaves \/ UNCHANGED probeVars
  BY <1>7, <1>12 DEF SweepStep, TimePasses, Leaves, probeVars, probeOnly
<1> QED
  BY <1>1, <1>2, <1>3, <1>4, <1>5, <1>8, <1>9, <1>10, <1>11, <1>12 DEF ProbeNext, Handle

(* For any number of messages: each comes back once and in its place, up   *)
(* to the one whose writing failed.                                        *)
THEOREM Echoes == ProbeSpec => []EchoesInOrder
<1>1. ProbeInit => EchoInv
  BY DEF ProbeInit, EchoInv
<1> QED
  BY <1>1, EchoStep, EchoInvSays, PTL DEF ProbeSpec

=============================================================================

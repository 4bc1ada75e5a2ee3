-------------------------- MODULE GeoLookup_proofs ---------------------------
(***************************************************************************)
(* Proofs about GeoLookup, for any number of concurrent calls, restarts    *)
(* and changes of the files.  The invariant says who is opening what: at   *)
(* most one call of a process does, none before `loaded' is set, and none  *)
(* once `available' is.                                                    *)
(***************************************************************************)
EXTENDS GeoLookup, TLAPS

Opening(c) == pc[c] \in {"city", "asn"}
Attempts(db) == opened[db].ok + opened[db].failed

OneLoader ==
  /\ ~loaded => /\ \A c \in Calls : pc[c] = "idle"
                /\ \A db \in Dbs : Attempts(db) = 0
  /\ \A c \in Calls : pc[c] = "city" => Attempts("city") = 0
  /\ \A c \in Calls : Opening(c) => ~available /\ Attempts("asn") = 0
  /\ \A c \in Calls : pc[c] = "asn" => cityReader
  /\ \A c, d \in Calls : Opening(c) /\ Opening(d) => c = d
  /\ available => asnReader \/ opened["asn"].failed > 0

Inv == TypeOK /\ OneLoader /\ OpensOnce /\ NetworkIsNotMissed

LEMMA InitInv == Init => Inv
<1> SUFFICES ASSUME Init PROVE Inv
  OBVIOUS
<1> USE DEF Init
<1>1. \A db \in Dbs : opened[db].ok = 0 /\ opened[db].failed = 0
  OBVIOUS
<1>2. TypeOK
  <2>1. 0 \in 0 .. MaxChanges /\ 0 \in 0 .. MaxRestarts
    BY GeoAssumption DEF GeoAssumption
  <2>2. {loaded, available, cityReader, asnReader} \subseteq BOOLEAN
    BY Zenon
  <2>3. opened \in [Dbs -> [ok : Nat, failed : Nat]]
    OBVIOUS
  <2> QED
    BY <2>1, <2>2, <2>3, Zenon DEF TypeOK
<1>3. OneLoader /\ OpensOnce
  BY <1>1 DEF OneLoader, Opening, Attempts, OpensOnce
<1>4. NetworkIsNotMissed
  BY DEF NetworkIsNotMissed
<1> QED
  BY <1>2, <1>3, <1>4 DEF Inv

(* An attempt counted is one attempt more for that database. *)
LEMMA Counts ==
  ASSUME TypeOK, NEW db \in Dbs, NEW ok \in BOOLEAN, Count(db, ok)
  PROVE  /\ opened' \in [Dbs -> [ok : Nat, failed : Nat]]
         /\ opened'[db].ok + opened'[db].failed = Attempts(db) + 1
         /\ ~ok => opened'[db].failed > 0
         /\ \A other \in Dbs \ {db} : opened'[other] = opened[other]
<1>1. opened[db] \in [ok : Nat, failed : Nat]
  BY DEF TypeOK
<1>2. PICK r \in [ok : Nat, failed : Nat] :
        /\ opened' = [opened EXCEPT ![db] = r]
        /\ r.ok + r.failed = opened[db].ok + opened[db].failed + 1
        /\ ~ok => r.failed > 0
  <2>1. CASE ok
    <3> DEFINE more == [opened[db] EXCEPT !.ok = @ + 1]
    <3>1. opened' = [opened EXCEPT ![db] = more]
      BY <2>1 DEF Count
    <3>2. more \in [ok : Nat, failed : Nat] /\ more.ok = opened[db].ok + 1 /\ more.failed = opened[db].failed
      BY <1>1
    <3> HIDE DEF more
    <3>3. more.ok + more.failed = opened[db].ok + opened[db].failed + 1
      BY <1>1, <3>2
    <3>4. ~ok => more.failed > 0
      BY <1>1, <2>1, <3>2
    <3> QED
      BY <3>1, <3>2, <3>3, <3>4, Zenon
  <2>2. CASE ~ok
    <3> DEFINE more == [opened[db] EXCEPT !.failed = @ + 1]
    <3>1. opened' = [opened EXCEPT ![db] = more]
      BY <2>2 DEF Count
    <3>2. more \in [ok : Nat, failed : Nat] /\ more.ok = opened[db].ok /\ more.failed = opened[db].failed + 1
      BY <1>1
    <3> HIDE DEF more
    <3>3. more.ok + more.failed = opened[db].ok + opened[db].failed + 1
      BY <1>1, <3>2
    <3>4. ~ok => more.failed > 0
      BY <1>1, <2>2, <3>2
    <3> QED
      BY <3>1, <3>2, <3>3, <3>4, Zenon
  <2> QED
    BY <2>1, <2>2
<1> QED
  BY <1>2 DEF Attempts, TypeOK

(* The first call of a process becomes its loader, and no later one. *)
LEMMA CallInv ==
  ASSUME Inv, NEW c \in Calls, Call(c)
  PROVE  Inv'
<1> USE DEF Inv, Call, module, disk, Goto
<1>1. TypeOK'
  BY DEF TypeOK
<1>2. OneLoader'
  BY DEF TypeOK, OneLoader, Opening, Attempts, Dbs
<1>3. OpensOnce' /\ NetworkIsNotMissed'
  BY DEF TypeOK, OpensOnce, NetworkIsNotMissed
<1> QED
  BY <1>1, <1>2, <1>3

LEMMA OpenCityInv ==
  ASSUME Inv, NEW c \in Calls, OpenCity(c)
  PROVE  Inv'
<1> USE DEF Inv, OpenCity, module, disk, Goto
<1>1. /\ "city" \in Dbs /\ "asn" \in Dbs
      /\ readable["city"] \in BOOLEAN
  BY DEF Dbs, TypeOK
<1>2. /\ opened' \in [Dbs -> [ok : Nat, failed : Nat]]
      /\ opened'["city"].ok + opened'["city"].failed = Attempts("city") + 1
      /\ opened'["asn"] = opened["asn"]
  BY <1>1, Counts
<1>3. Attempts("city") = 0 /\ Attempts("asn") = 0 /\ loaded /\ ~available
  BY DEF OneLoader, Opening
<1>4. /\ pc' \in [Calls -> {"idle", "city", "asn", "ready", "done"}]
      /\ pc'[c] # "city" /\ (pc'[c] = "asn" => cityReader')
      /\ \A d \in Calls \ {c} : pc'[d] = pc[d] /\ pc[d] \notin {"city", "asn"}
      /\ cityReader' \in BOOLEAN /\ ~available' /\ available' \in BOOLEAN
  BY DEF TypeOK, OneLoader, Opening
<1>5. TypeOK'
  BY <1>2, <1>3, <1>4 DEF TypeOK
<1>6. OneLoader'
  BY <1>2, <1>3, <1>4 DEF OneLoader, Opening, Attempts, TypeOK
<1>7. OpensOnce'
  BY <1>2, <1>3 DEF OpensOnce, Attempts, Dbs
<1>8. NetworkIsNotMissed'
  BY <1>2 DEF NetworkIsNotMissed
<1> QED
  BY <1>5, <1>6, <1>7, <1>8

LEMMA OpenAsnInv ==
  ASSUME Inv, NEW c \in Calls, OpenAsn(c)
  PROVE  Inv'
<1> USE DEF Inv, OpenAsn, module, disk, Goto
<1>1. /\ "city" \in Dbs /\ "asn" \in Dbs
      /\ readable["asn"] \in BOOLEAN
  BY DEF Dbs, TypeOK
<1>2. /\ opened' \in [Dbs -> [ok : Nat, failed : Nat]]
      /\ opened'["asn"].ok + opened'["asn"].failed = Attempts("asn") + 1
      /\ ~readable["asn"] => opened'["asn"].failed > 0
      /\ opened'["city"] = opened["city"]
  BY <1>1, Counts
<1>3. Attempts("asn") = 0 /\ loaded /\ cityReader
  BY DEF OneLoader, Opening
<1>4. /\ pc' \in [Calls -> {"idle", "city", "asn", "ready", "done"}]
      /\ \A d \in Calls : pc'[d] \notin {"city", "asn"}
      /\ asnReader' \in BOOLEAN
  BY <1>1 DEF TypeOK, OneLoader, Opening
<1>5. TypeOK'
  BY <1>2, <1>3, <1>4 DEF TypeOK
<1>6. OneLoader'
  BY <1>2, <1>3, <1>4 DEF OneLoader, Opening, Attempts, TypeOK
<1>7. OpensOnce'
  BY <1>2, <1>3 DEF OpensOnce, Attempts, Dbs
<1>8. NetworkIsNotMissed'
  <2>1. opened["asn"].failed > 0 => opened'["asn"].failed > 0
    <3>1. opened["asn"] \in [ok : Nat, failed : Nat] /\ opened'["asn"] \in [ok : Nat, failed : Nat]
      BY <1>1, <1>2 DEF TypeOK
    <3> QED
      BY <1>3, <3>1 DEF Attempts
  <2> QED
    BY <2>1 DEF NetworkIsNotMissed
<1> QED
  BY <1>5, <1>6, <1>7, <1>8

(* An answer without the network is given only when the loader is done. *)
LEMMA ResumeInv ==
  ASSUME Inv, NEW c \in Calls, Resume(c)
  PROVE  Inv'
<1> USE DEF Inv, Resume, module, disk, Goto
<1>1. TypeOK'
  BY DEF TypeOK
<1>2. OneLoader'
  BY DEF TypeOK, OneLoader, Opening, Attempts
<1>3. OpensOnce'
  BY DEF OpensOnce
<1>4. NetworkIsNotMissed'
  BY DEF TypeOK, OneLoader, NetworkIsNotMissed
<1> QED
  BY <1>1, <1>2, <1>3, <1>4

(* A bounded counter stays in its range. *)
LEMMA OneMore ==
  /\ changes \in 0 .. MaxChanges /\ changes < MaxChanges => changes + 1 \in 0 .. MaxChanges
  /\ restarts \in 0 .. MaxRestarts /\ restarts < MaxRestarts => restarts + 1 \in 0 .. MaxRestarts
  BY GeoAssumption DEF GeoAssumption

LEMMA NextInv == Inv /\ [Next]_vars => Inv'
<1> SUFFICES ASSUME Inv, [Next]_vars PROVE Inv'
  OBVIOUS
<1>1. ASSUME NEW c \in Calls, Return(c) PROVE Inv'
  BY <1>1 DEF Return, Inv, TypeOK, OneLoader, Opening, Attempts, OpensOnce, NetworkIsNotMissed,
              module, disk, Goto
<1>2. CASE Restart
  <2> USE <1>2 DEF Restart, Fresh, disk
  <2>1. \A db \in Dbs : opened'[db].ok = 0 /\ opened'[db].failed = 0
    OBVIOUS
  <2>2. TypeOK'
    <3>1. changes' \in 0 .. MaxChanges /\ restarts' \in 0 .. MaxRestarts
      BY OneMore, Zenon DEF Inv, TypeOK
    <3>2. {loaded', available', cityReader', asnReader'} \subseteq BOOLEAN
      BY Zenon
    <3>3. opened' \in [Dbs -> [ok : Nat, failed : Nat]]
      OBVIOUS
    <3>4. readable' \in [Dbs -> BOOLEAN]
      BY DEF Inv, TypeOK
    <3> QED
      BY <3>1, <3>2, <3>3, <3>4, Zenon DEF TypeOK
  <2>3. OneLoader' /\ OpensOnce'
    BY <2>1 DEF OneLoader, Opening, Attempts, OpensOnce
  <2>4. NetworkIsNotMissed'
    BY DEF NetworkIsNotMissed
  <2> QED
    BY <2>2, <2>3, <2>4 DEF Inv
<1>3. ASSUME NEW db \in Dbs, FileChanges(db) PROVE Inv'
  <2> USE <1>3 DEF FileChanges, Inv, module
  <2>1. TypeOK'
    <3>1. changes' \in 0 .. MaxChanges /\ restarts' \in 0 .. MaxRestarts
      BY OneMore, Zenon DEF TypeOK
    <3>2. readable' \in [Dbs -> BOOLEAN]
      BY Zenon DEF TypeOK
    <3> QED
      BY <3>1, <3>2 DEF TypeOK
  <2>2. OneLoader' /\ OpensOnce' /\ NetworkIsNotMissed'
    BY DEF OneLoader, Opening, Attempts, OpensOnce, NetworkIsNotMissed
  <2> QED
    BY <2>1, <2>2
<1>4. CASE UNCHANGED vars
  BY <1>4 DEF vars, Inv, TypeOK, OneLoader, Opening, Attempts, OpensOnce, NetworkIsNotMissed,
              module, disk
<1> QED
  BY <1>1, <1>2, <1>3, <1>4, CallInv, OpenCityInv, OpenAsnInv, ResumeInv DEF Next, Serve

THEOREM Invariance == Spec => []Inv
  BY InitInv, NextInv, PTL DEF Spec

-----------------------------------------------------------------------------
(* The module state of geo.ts keeps its types; in particular answers are   *)
(* given only from a city reader that is there.                            *)
THEOREM Typing == Spec => []TypeOK
  BY Invariance, PTL DEF Inv

(* For any number of concurrent first calls, a process opens each database *)
(* at most once.                                                           *)
THEOREM Once == Spec => []OpensOnce
  BY Invariance, PTL DEF Inv

(* No call is answered without a network that its address has because the  *)
(* network database was still being opened.                                *)
THEOREM NetworkKept == Spec => []NetworkIsNotMissed
  BY Invariance, PTL DEF Inv
=============================================================================

----------------------------- MODULE GeoLookup ------------------------------
(***************************************************************************)
(* node/geo.ts: lookupGeo answers from two databases that the first call   *)
(* of a process opens.  Calls are asynchronous and interleave at their     *)
(* awaits: one made while the databases are being opened finds `loaded'    *)
(* set and goes on at once, with whatever readers there are by then.       *)
(***************************************************************************)
EXTENDS Integers

CONSTANTS
  Calls,        \* concurrent callers of lookupGeo, each with one IP address
  Known,        \* Known[c]: the databases that have an entry for that address
  MaxRestarts,  \* bound on the restarts of the process
  MaxChanges    \* bound on the changes of the files on disk

Dbs == {"city", "asn"}

ASSUME GeoAssumption ==
  /\ Known \in [Calls -> SUBSET Dbs]
  /\ MaxRestarts \in Nat /\ MaxChanges \in Nat

VARIABLES
  readable,    \* readable[db]: the file of db is there and can be opened
  changes,     \* how often files have come and gone
  restarts,    \* how often the process has been restarted
  loaded, available, cityReader, asnReader,   \* module state of geo.ts
  pc,          \* pc[c]: where call c is
  answer,      \* answer[c]: what it returned
  opened       \* opened[db]: the outcomes of this process's attempts to open
               \* db, counted (history)

disk == <<readable, changes>>
module == <<loaded, available, cityReader, asnReader>>
vars == <<disk, restarts, module, pc, answer, opened>>

TypeOK ==
  /\ readable \in [Dbs -> BOOLEAN]
  /\ changes \in 0 .. MaxChanges /\ restarts \in 0 .. MaxRestarts
  /\ {loaded, available, cityReader, asnReader} \subseteq BOOLEAN
  /\ available => loaded /\ cityReader
  /\ pc \in [Calls -> {"idle", "city", "asn", "ready", "done"}]
  /\ answer \in [Calls -> {"none", "null", "record", "record with network"}]
  /\ opened \in [Dbs -> [ok : Nat, failed : Nat]]

Fresh ==
  /\ loaded' = FALSE /\ available' = FALSE
  /\ cityReader' = FALSE /\ asnReader' = FALSE
  /\ pc' = [c \in Calls |-> "idle"]
  /\ answer' = [c \in Calls |-> "none"]
  /\ opened' = [db \in Dbs |-> [ok |-> 0, failed |-> 0]]

Init ==
  /\ readable \in [Dbs -> BOOLEAN]
  /\ changes = 0 /\ restarts = 0
  /\ loaded = FALSE /\ available = FALSE
  /\ cityReader = FALSE /\ asnReader = FALSE
  /\ pc = [c \in Calls |-> "idle"]
  /\ answer = [c \in Calls |-> "none"]
  /\ opened = [db \in Dbs |-> [ok |-> 0, failed |-> 0]]

-----------------------------------------------------------------------------

Goto(c, l) == pc' = [pc EXCEPT ![c] = l]
Count(db, ok) ==
  opened' = IF ok THEN [opened EXCEPT ![db].ok = @ + 1]
                  ELSE [opened EXCEPT ![db].failed = @ + 1]

(* ensureLoaded up to its first await: `loaded' is set before anything is  *)
(* opened, so one call opens the files and no other waits for it.          *)
Call_SetsLoadedLast(c) ==
  /\ pc[c] = "idle"
  /\ answer' = [answer EXCEPT ![c] = "none"]
  /\ Goto(c, IF available THEN "ready" ELSE "city")
  /\ loaded' = available
  /\ UNCHANGED <<disk, restarts, available, cityReader, asnReader, opened>>

Call(c) ==
  /\ pc[c] = "idle"
  /\ answer' = [answer EXCEPT ![c] = "none"]
  /\ Goto(c, IF loaded THEN "ready" ELSE "city")
  /\ loaded' = TRUE
  /\ UNCHANGED <<disk, restarts, available, cityReader, asnReader, opened>>

(* The city file is opened; if it cannot be, geolocation is unavailable.   *)
OpenCity_WaitsForFile(c) ==
  /\ pc[c] = "city" /\ readable["city"]
  /\ Count("city", TRUE)
  /\ cityReader' = TRUE /\ Goto(c, "asn")
  /\ UNCHANGED <<disk, restarts, loaded, available, asnReader, answer>>

OpenCity_Available(c) ==
  /\ pc[c] = "city"
  /\ Count("city", readable["city"])
  /\ available' = readable["city"]
  /\ cityReader' = (cityReader \/ readable["city"])
  /\ Goto(c, IF readable["city"] THEN "asn" ELSE "ready")
  /\ UNCHANGED <<disk, restarts, loaded, asnReader, answer>>

OpenCity(c) ==
  /\ pc[c] = "city"
  /\ Count("city", readable["city"])
  /\ IF readable["city"]
     THEN cityReader' = TRUE /\ Goto(c, "asn") /\ UNCHANGED available
     ELSE available' = FALSE /\ Goto(c, "ready") /\ UNCHANGED cityReader
  /\ UNCHANGED <<disk, restarts, loaded, asnReader, answer>>

(* The network database is optional; only now are answers given.           *)
OpenAsn(c) ==
  /\ pc[c] = "asn"
  /\ Count("asn", readable["asn"])
  /\ asnReader' = readable["asn"]
  /\ available' = TRUE
  /\ Goto(c, "ready")
  /\ UNCHANGED <<disk, restarts, loaded, cityReader, answer>>

(* lookupGeo after its await. *)
Resume(c) ==
  /\ pc[c] = "ready"
  /\ answer' = [answer EXCEPT ![c] =
                  IF ~available \/ ~cityReader \/ "city" \notin Known[c] THEN "null"
                  ELSE IF asnReader /\ "asn" \in Known[c] THEN "record with network"
                  ELSE "record"]
  /\ Goto(c, "done")
  /\ UNCHANGED <<disk, restarts, module, opened>>

(* The caller takes the answer and will ask again. *)
Return(c) ==
  /\ pc[c] = "done"
  /\ Goto(c, "idle")
  /\ UNCHANGED <<disk, restarts, module, answer, opened>>

(* The process ends, with the calls in flight, and starts again. *)
Restart ==
  /\ restarts < MaxRestarts
  /\ restarts' = restarts + 1
  /\ Fresh
  /\ UNCHANGED disk

(* A database is installed, replaced or removed. *)
FileChanges(db) ==
  /\ changes < MaxChanges
  /\ changes' = changes + 1
  /\ readable' = [readable EXCEPT ![db] = ~@]
  /\ UNCHANGED <<restarts, module, pc, answer, opened>>

Serve(c) == OpenCity(c) \/ OpenAsn(c) \/ Resume(c)

Next ==
  \/ \E c \in Calls : Call(c) \/ Serve(c) \/ Return(c)
  \/ Restart
  \/ \E db \in Dbs : FileChanges(db)

(* The runtime completes every open, with a reader or an error, and runs   *)
(* every continuation.                                                     *)
Spec == Init /\ [][Next]_vars /\ \A c \in Calls : WF_vars(Serve(c))

-----------------------------------------------------------------------------

(* However many calls come first, a process opens each database at most    *)
(* once.                                                                   *)
OpensOnce == \A db \in Dbs : opened[db].ok + opened[db].failed <= 1

(* A record lacks the network of an address only if the network database   *)
(* has no entry for it or could not be opened: no call is answered from    *)
(* the city reader while the network file is still being opened.           *)
NetworkIsNotMissed ==
  \A c \in Calls :
    answer[c] = "record" => "asn" \notin Known[c] \/ opened["asn"].failed > 0

(* Every call returns, whether or not the files can be opened. *)
EveryCallReturns ==
  \A c \in Calls : pc[c] \in {"city", "asn", "ready"} ~> pc[c] \in {"done", "idle"}

(* The comment of ensureLoaded: geolocation is unavailable when the city   *)
(* database is missing or unreadable.  For an address the database has, a  *)
(* null answer means that it could not be, or cannot be, opened.           *)
NullMeansNoCityDatabase ==
  \A c \in Calls :
    answer[c] = "null" /\ "city" \in Known[c] =>
      opened["city"].failed > 0 \/ ~readable["city"]

=============================================================================

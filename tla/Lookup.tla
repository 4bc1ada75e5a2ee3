------------------------------- MODULE Lookup -------------------------------
(***************************************************************************)
(* What the asynchronous lookups of tools-core promise their callers: each *)
(* call that is started settles exactly once, fulfilled or rejected, and   *)
(* does so before its budget of time is spent.  Every tool of the library  *)
(* awaits such promises; DohClient and ParallelTools implement this.       *)
(***************************************************************************)
EXTENDS Integers

CONSTANTS
  Calls,   \* the promises a caller may create
  Budget   \* Budget[c] \in Nat: the longest that call c may stay pending

VARIABLES
  now,         \* the time
  startedAt,   \* startedAt[c]: when call c was made
  state        \* state[c]: the state of the promise of call c

vars == <<now, startedAt, state>>

Settled == {"fulfilled", "rejected"}
States == {"idle", "pending"} \cup Settled

Init ==
  /\ now = 0
  /\ startedAt = [c \in Calls |-> 0]
  /\ state = [c \in Calls |-> "idle"]

(* Any set of idle calls is made at once; a call may settle as it is made, *)
(* an argument being refused before anything is sent.                      *)
Start(C) ==
  /\ C # {}
  /\ \A c \in C : state[c] = "idle"
  /\ startedAt' = [c \in Calls |-> IF c \in C THEN now ELSE startedAt[c]]
  /\ state' \in [Calls -> States]
  /\ \A c \in Calls : IF c \in C THEN state'[c] # "idle" ELSE state'[c] = state[c]
  /\ UNCHANGED now

Settle(c) ==
  /\ state[c] = "pending"
  /\ \E s \in Settled : state' = [state EXCEPT ![c] = s]
  /\ UNCHANGED <<now, startedAt>>

(* No call is still pending when its budget is spent. *)
Tick ==
  /\ \A c \in Calls : state[c] = "pending" => now < startedAt[c] + Budget[c]
  /\ now' = now + 1
  /\ UNCHANGED <<startedAt, state>>

Next ==
  \/ \E C \in SUBSET Calls : Start(C)
  \/ \E c \in Calls : Settle(c)
  \/ Tick

Spec == Init /\ [][Next]_vars

(* A promise that was created is not left pending for ever: no one awaits  *)
(* a lookup in vain.                                                       *)
EveryCallSettles == \A c \in Calls : state[c] = "pending" ~> state[c] \in Settled

=============================================================================

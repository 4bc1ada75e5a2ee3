------------------------ MODULE MCOperationalCrypto -------------------------
(* Three processes that share a store of two blobs, and a rotation through *)
(* three ids and back.                                                     *)
EXTENDS OperationalCrypto, TLC

(* Slots, ids and keys are only compared with each other. *)
Symmetry ==
  Permutations(Slots) \cup Permutations(Procs) \cup Permutations(Ids) \cup Permutations(Keys)

=============================================================================

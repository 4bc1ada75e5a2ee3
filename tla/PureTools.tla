------------------------------ MODULE PureTools ------------------------------
(***************************************************************************)
(* The tools of tools-core that only compute.  They share no state: each   *)
(* behaviour is one call of one of them, chosen at the start.              *)
(***************************************************************************)
EXTENDS Cidr, Wire, Address

VARIABLE tool

pureVars == <<tool, vars, wireVars, addressVars>>

PureInit ==
  /\ tool \in {"cidr", "wire", "address"}
  /\ Init /\ WireInit /\ AddressInit

PureNext ==
  /\ UNCHANGED tool
  /\ \/ tool = "cidr" /\ Next /\ UNCHANGED <<wireVars, addressVars>>
     \/ tool = "wire" /\ WireNext /\ UNCHANGED <<vars, addressVars>>
     \/ tool = "address" /\ AddressNext /\ UNCHANGED <<vars, wireVars>>

PureSpec == PureInit /\ [][PureNext]_pureVars
=============================================================================

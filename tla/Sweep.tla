------------------------------- MODULE Sweep --------------------------------
(***************************************************************************)
(* What /probe/dnsbl promises: something is found out about every zone,    *)
(* once, and then one response carries all of it, as it stands.            *)
(***************************************************************************)
CONSTANTS
  Zones,     \* the DNS blacklists
  Verdicts   \* what a lookup in one of them says

Unset == "unset"   \* nothing yet

VARIABLES
  listing,   \* listing[z]: what was found out about zone z
  responses  \* the verdicts sent to the client, in order

Init ==
  /\ listing = [z \in Zones |-> Unset]
  /\ responses = <<>>

Judge(z) ==
  /\ listing[z] = Unset
  /\ responses = <<>>
  /\ \E v \in Verdicts : listing' = [listing EXCEPT ![z] = v]
  /\ UNCHANGED responses

Respond ==
  /\ responses = <<>>
  /\ \A z \in Zones : listing[z] # Unset
  /\ responses' = <<listing>>
  /\ UNCHANGED listing

Next == (\E z \in Zones : Judge(z)) \/ Respond

Spec == Init /\ [][Next]_<<listing, responses>>

=============================================================================

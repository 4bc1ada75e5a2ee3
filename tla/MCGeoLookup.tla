--------------------------- MODULE MCGeoLookup ------------------------------
(* Three callers; the address of one is in the city database only, and     *)
(* that of another in neither.                                             *)
EXTENDS GeoLookup

CONSTANTS everywhere, cityOnly, nowhere

MCCalls == {everywhere, cityOnly, nowhere}
MCKnown ==
  [c \in MCCalls |-> CASE c = everywhere -> Dbs [] c = cityOnly -> {"city"} [] OTHER -> {}]

=============================================================================

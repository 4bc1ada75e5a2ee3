-------------------------- MODULE MCParallelTools ---------------------------
(* checkDnssec over the default chain, its three legs under one timeout;   *)
(* checkPropagation over two resolvers; lookupAll of two types over the     *)
(* default chain; lookupAsn over the default chain, with two names at most *)
(* though more ASes may announce the address.                              *)
EXTENDS ParallelTools, TLC

CONSTANTS quad9, cloudflare
CONSTANTS one, two, three, toQuad9, toCloudflare

MCResolvers == {quad9, cloudflare}
MCDefaultResolvers == <<quad9, cloudflare>>
MCCalls == {one, two, three, toQuad9, toCloudflare}
MCNameLegs == <<two, three>>
MCQuery ==
  [dnssec |-> one :> "SOA" @@ two :> "DNSKEY" @@ three :> "DS",
   propagation |-> toQuad9 :> "any" @@ toCloudflare :> "any",
   lookupAll |-> one :> "any" @@ two :> "any",
   asn |-> one :> "origin" @@ two :> "name" @@ three :> "name"]
MCAsViews ==
  {[origin |-> "no AS", named |-> {}], [origin |-> "one AS", named |-> {two}],
   [origin |-> "many ASes", named |-> {three}],
   [origin |-> "many ASes", named |-> {two, three}]}
MCOpts ==
  [c \in MCCalls |->
     [encodable |-> TRUE, resolvers |-> Unset,
      resolver |-> CASE c = toQuad9 -> quad9 [] c = toCloudflare -> cloudflare
                     [] OTHER -> Unset,
      timeoutMs |-> IF c \in {toQuad9, toCloudflare} THEN 2 ELSE Unset]]

=============================================================================

---------------------------- MODULE MCDohClient -----------------------------
(* Four concurrent calls of dohQuery: the default chain, an explicit list  *)
(* that overrides `resolver', an empty list, and a name that cannot be     *)
(* encoded.                                                                *)
EXTENDS DohClient

CONSTANTS quad9, cloudflare, mullvad
CONSTANTS plain, listed, empty, unencodable

MCCalls == {plain, listed, empty, unencodable}
MCResolvers == {quad9, cloudflare, mullvad}
MCDefaultResolvers == <<quad9, cloudflare>>

Defaults ==
  [encodable |-> TRUE, resolver |-> Unset, resolvers |-> Unset, timeoutMs |-> Unset]

MCOpts ==
  [c \in MCCalls |->
    CASE c = plain -> Defaults
      [] c = listed -> [Defaults EXCEPT !.resolvers = <<mullvad, cloudflare, quad9>>,
                                        !.resolver = quad9, !.timeoutMs = 1]
      [] c = empty -> [Defaults EXCEPT !.resolvers = <<>>]
      [] c = unencodable -> [Defaults EXCEPT !.encodable = FALSE, !.resolver = mullvad]]

=============================================================================

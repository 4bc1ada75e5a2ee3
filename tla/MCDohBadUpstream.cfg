SPECIFICATION DohSpec
CONSTANTS
  quad9 = quad9
  cloudflare = cloudflare
  mullvad = mullvad
  plain = plain
  listed = listed
  empty = empty
  unencodable = unencodable
  Unset = Unset
  Calls <- MCCalls
  Resolvers <- MCResolvers
  DefaultResolvers <- MCDefaultResolvers
  DefaultTimeout = 2
  Opts <- MCOpts
INVARIANTS
  OneBadUpstreamIsSurvived
CHECK_DEADLOCK FALSE

SPECIFICATION Spec
CONSTANTS
  quad9 = quad9
  cloudflare = cloudflare
  one = one
  two = two
  three = three
  toQuad9 = toQuad9
  toCloudflare = toCloudflare
  Unset = Unset
  NoReply = NoReply
  AsViews <- MCAsViews
  Tools = {"dnssec", "propagation", "lookupAll", "asn"}
  Calls <- MCCalls
  Resolvers <- MCResolvers
  DefaultResolvers <- MCDefaultResolvers
  DefaultTimeout = 1
  Opts <- MCOpts
  NameLegs <- MCNameLegs
  Query <- MCQuery
  MaxChanges = 1
INVARIANTS
  StatusWasSeen
  ConsistentMeansAgreement
  NamesAreBestEffort
PROPERTIES
  ToolImplementsLookup
  ToolSettles
CHECK_DEADLOCK FALSE

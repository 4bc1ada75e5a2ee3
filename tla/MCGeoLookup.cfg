SPECIFICATION Spec
CONSTANTS
  everywhere = everywhere
  cityOnly = cityOnly
  nowhere = nowhere
  Calls <- MCCalls
  Known <- MCKnown
  MaxRestarts = 1
  MaxChanges = 2
INVARIANTS
  OpensOnce
  NetworkIsNotMissed
PROPERTIES
  EveryCallReturns

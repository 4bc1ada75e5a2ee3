SPECIFICATION Spec
CONSTANTS
  Urls = {u, v}
  NoLocation = NoLocation
  BadLocation = BadLocation
  MaxRedirects = 4
INVARIANTS
  EveryRequestWasChecked
  RedirectsAreTheChain
  RequestsAreBounded
CHECK_DEADLOCK FALSE

SPECIFICATION Spec
CONSTANTS
  Urls = {u, v}
  NoLocation = NoLocation
  BadLocation = BadLocation
  MaxRedirects = 4
INVARIANTS
  TooManyRedirectsAreRejected
CHECK_DEADLOCK FALSE

\* Two signals and two datagrams; three registrations of two services; two
\* CoAP requests for two paths, three registrations, one repeated request.
CONSTANTS
  MaxSignals = 2
  MaxDatagrams = 2
  Services = {s, t}
  Renamed = Renamed
  MaxRefs = 3
  Paths = {p, q}
  NotFound = NotFound
  MaxRequests = 2
  MaxAdded = 3
  MaxRepeats = 1
SPECIFICATION MCSpec
INVARIANTS NothingWaitsUnseen RefsKept ExchangesMatch
PROPERTY AllServed
CHECK_DEADLOCK FALSE

\* Two requests of a browser that follows the stream, with lost connections and a fault.
CONSTANTS
  r1 = r1
  r2 = r2
  c1 = c1
  p1 = p1
  b1 = b1
  NoOne = NoOne
  Actors = {r1, r2}
  Requests = {r1, r2}
  Cancels = {}
  Commands = {}
  Browsers = {b1}
  IssuedBy <- OnePage
  Disabled = {}
  Required = FALSE
  SignManifests = FALSE
  HistoryScan = 3
  MaxRev = 2
  MaxFaults = 1
SPECIFICATION Spec
INVARIANTS
  SingleFlight
  HistoryIsTrue
  StaleOnlyAcrossRestart

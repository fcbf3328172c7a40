SPECIFICATION ObservedSpec
CONSTANTS
  Keys = {k1, k2}
  Requests = {r1, r2, r3}
  MaxInFlight = 2
  MaxPerMinute = 2
  Window = 3
  MaxDelay = 1
INVARIANT InFlightIsPermits RetryAfterIsEnough MinuteBounded
SYMMETRY Symmetry

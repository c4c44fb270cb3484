SPECIFICATION UtilitiesSpec
CONSTANTS
  t1 = t1
  t2 = t2
  o1 = o1
  o2 = o2
  o3 = o3
  o4 = o4
  Threads <- TwoThreads
  Signals <- TwoSignals
  MayFail = TRUE
  MaxArrivals = 4
  Ops <- FourOps
  PoolSize = 3
  Fits = {TRUE, FALSE}
  MaxStops = 2
  Online <- ThreeCpus
  Bits = 2
  Second = 2
  MaxSleep = 5
  Priorities <- AtLimits
  Bytes = 2
  Dashes = {1}
  Hex <- HexDigits
  Invalid = {"x"}
  MaxText = 6
INVARIANT DeathReported
INVARIANT StorageShared
INVARIANT StorageReturned
INVARIANT AttributesReadBack
INVARIANT PriorityWasHeld
INVARIANT SleepsOut
INVARIANT TextMeansData
PROPERTY CaughtIsFatal
CHECK_DEADLOCK FALSE

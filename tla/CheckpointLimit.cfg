SPECIFICATION Spec
CONSTANTS
  MaxSaves = 1
  TopKCapacity = 2
  ReadLimit = 1
INVARIANT RoundTrip

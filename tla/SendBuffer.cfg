\* Capacities 1, 2, 4 and the clipped 5: growth by one and by two doublings, the
\* clip at the maximum and a rejected write all happen.
CONSTANTS
  Bytes = {zero, one}
  Zero = zero
  InitialCapacity = 1
  MaxCapacity = 5
  MaxWrite = 3
SPECIFICATION Spec
INVARIANTS TypeOK PositionsInside
PROPERTY ImplementsByteStream

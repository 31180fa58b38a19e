CONSTANTS
  Key = {k1, k2, k3, k4}
  Value = {v1, v2}
  Size = 3
SPECIFICATION UseSpec
INVARIANTS TypeOK ListMatchesMap WithinCapacity
PROPERTIES ImplementsLeastRecent

CONSTANTS
  Faults <- AllFaults
  MaxFaults = 3
SPECIFICATION Spec
INVARIANTS
  TypeOK
  ReleaseIsSound
  OnlyMappingsLeak
  UseIsSafe

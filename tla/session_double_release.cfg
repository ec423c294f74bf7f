CONSTANTS
  Faults <- CodecFaults
  MaxFaults = 1
SPECIFICATION Spec
INVARIANT CleansUpWhatWasInitialized

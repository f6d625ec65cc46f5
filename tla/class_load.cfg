\* Class files with up to two fields and two methods, whole and cut short.
CONSTANTS
  Files <- MCFiles
  Cuts <- MCCuts
  Bases = {0, 1, 3}
SPECIFICATION Spec
INVARIANTS TypeOK RoundTrip RefusedWithReason

\* A station with two devices, and two requests.
CONSTANTS
  A = A
  d = d
  e = e
  r1 = r1
  r2 = r2
  Seed = Seed
  Stations <- MCStations
  Devices <- MCDevices
  Home <- MCHome
  Requests <- MCRequests
SYMMETRY MCSymmetry
SPECIFICATION Spec
INVARIANTS RemovedAreUnseen
PROPERTIES OnlyOverlapsRemain

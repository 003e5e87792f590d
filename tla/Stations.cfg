\* One station with room for two of three devices, and two requests.
CONSTANTS
  s1 = s1
  d1 = d1
  d2 = d2
  d3 = d3
  r1 = r1
  r2 = r2
  Stations <- MCStationSet
  Devices <- MCDevices
  Home <- MCHome
  Requests <- MCRequests
  MaxDevices = 2
  Levels = {0, 1, 2}
SYMMETRY MCSymmetry
SPECIFICATION Spec
INVARIANTS FlagTellsDevices DevicesLimited DeletedStationsRest StopsRespectBindings

----------------------------- MODULE MCStations -----------------------------
(* Stations with one station, three devices and two requests.              *)
EXTENDS Stations, TLC

CONSTANTS s1, d1, d2, d3, r1, r2

MCStationSet == {s1}
MCDevices == {d1, d2, d3}
MCHome == [d \in MCDevices |-> s1]
MCRequests == {r1, r2}
MCSymmetry == Permutations(MCDevices) \cup Permutations(MCRequests)
=============================================================================

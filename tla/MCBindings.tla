----------------------------- MODULE MCBindings -----------------------------
(* Bindings with a station that has two devices, and two requests.         *)
EXTENDS Bindings, TLC

CONSTANTS A, d, e, r1, r2

MCStations == {A}
MCDevices == {d, e}
MCHome == [x \in MCDevices |-> A]
MCRequests == {r1, r2}
MCSymmetry == Permutations(MCRequests) \cup Permutations(MCDevices)
=============================================================================

-------------------------- MODULE MCXeroTokenManager --------------------------
(* Instances of XeroTokenManager for TLC.                                  *)
EXTENDS XeroTokenManager, TLC
CONSTANTS r1, r2, r3
Two == {r1, r2}
Three == {r1, r2, r3}
Symmetry == Permutations(Request)
OutageOnly == {"outage"}
AllFaults == FaultKinds
===============================================================================

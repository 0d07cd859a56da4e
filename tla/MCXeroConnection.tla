--------------------------- MODULE MCXeroConnection ---------------------------
(* Instances of XeroConnection for TLC.                                    *)
EXTENDS XeroConnection, TLC
CONSTANTS r1, r2, s1
One == {r1}
Two == {r1, r2}
OneState == {s1}
NoState == {}
Symmetry == Permutations(Request)
NoFault == {}
AllFaults == FaultKinds
LiveFaults == {"outage", "lapse", "crash", "cut"}
AllJobs == JobKinds
ApiOnly == {"api"}
ApiRevoke == {"api", "revoke"}
===============================================================================
